---- MODULE Spec2Model ----
(***************************************************************************)
(* A model of the margaret dataflow fabric:                                *)
(*   - the job scheduler  (margaret/computer.py, class Computer),          *)
(*   - the slot store     (margaret/core/memory.py, class VirtualMemory),  *)
(*   - the hub's relays   (margaret/core/network.py, class BusMaster),     *)
(*   - the flow control   (margaret/client.py, class Client),              *)
(*   - the network store  (margaret/core/netvm.py, class NetVM),           *)
(*   - the communicator   (margaret/communicator.py), with its scheduler,  *)
(*   - the pipeline stage (margaret/core/cell.py, class Cell).             *)
(* Each component has its own specification (SpecComputer, SpecMemory,     *)
(* SpecBus, SpecClient, SpecNetVM, SpecComm, SpecCell); the scheduler has  *)
(* SpecLoad for producers of valid jobs, the hub SpecHub for its           *)
(* registrations and SpecBroadcast for its system events, the client       *)
(* SpecBoot for its connection and SpecBuffer for change_buffer.  A        *)
(* specification leaves the variables of the other components at their     *)
(* initial value.                                                          *)
(***************************************************************************)
EXTENDS Integers, Sequences, FiniteSets, TLC

\* The job scheduler
VARIABLES q, clock, callbacks, pc, cur, datacnt, last

\* The slot store
VARIABLES memory, memLast

\* The hub and its peers
VARIABLES handlers, layers, connected, inbox, emits, busLast, registered,
          dispatched

\* The client's flow control
VARIABLES buffer, sem, tpc, epc, syncOn, calls, emitted, handlerCalls,
          released, connects

\* The client's change_buffer: its position, its argument, how it ended and
\* the semaphore it discarded
VARIABLES changed

\* The client's boot: its position, the hub's reachability, the state of the
\* engine.io connection, the connect event not served yet, the failed
\* attempts and the seconds slept
VARIABLES bootpc, hubUp, eioState, evPending, failures, waited

\* The listeners of the network slot store (its slots are in memory)
VARIABLES lpc, starting, listens, nvCallbacks, nvFired, nvLast

\* The communicator in front of the scheduler
VARIABLES encoderSet, cpc, outbox, commLast

\* The pipeline stage: its two stores, its gate, lock and exit flag, its
\* hooks, the run loop's and the caller's position
VARIABLES source, drain, gate, lockRef, lockHeld, exit, fetchSet,
          writebackSet, cellpc, wb, callerpc, writes, cellLast

computerVars == <<q, clock, callbacks, pc, cur, datacnt, last>>

memoryVars == <<memory, memLast>>

busVars ==
    <<handlers, layers, connected, inbox, emits, busLast, registered,
      dispatched>>

vars == <<q, clock, callbacks, pc, cur, datacnt, last, memory, memLast,
          handlers, layers, connected, inbox, emits, busLast, registered,
          dispatched,
          buffer, sem, tpc, epc, syncOn, calls, emitted, handlerCalls,
          released, connects, changed,
          bootpc, hubUp, eioState, evPending, failures, waited,
          lpc, starting, listens, nvCallbacks, nvFired, nvLast,
          encoderSet, cpc, outbox, commLast,
          source, drain, gate, lockRef, lockHeld, exit, fetchSet,
          writebackSet, cellpc, wb, callerpc, writes, cellLast>>

clientVars == <<buffer, sem, tpc, epc, syncOn, calls, emitted, handlerCalls,
                released, connects>>

resetVars == <<changed>>

bootVars == <<bootpc, hubUp, eioState, evPending, failures, waited>>

netvmVars == <<lpc, starting, listens, nvCallbacks, nvFired, nvLast>>

commVars == <<encoderSet, cpc, outbox, commLast>>

cellVars == <<source, drain, gate, lockRef, lockHeld, exit, fetchSet,
              writebackSet, cellpc, wb, callerpc, writes, cellLast>>

notComputer ==
    <<memoryVars, busVars, clientVars, bootVars, netvmVars, commVars,
      cellVars, resetVars>>

notMemory ==
    <<computerVars, busVars, clientVars, bootVars, netvmVars, commVars,
      cellVars, resetVars>>

notBus ==
    <<computerVars, memoryVars, clientVars, bootVars, netvmVars, commVars,
      cellVars, resetVars>>

notClient ==
    <<computerVars, memoryVars, busVars, bootVars, netvmVars, commVars,
      cellVars, resetVars>>

\* What change_buffer leaves alone besides the flow control.
notReset ==
    <<computerVars, memoryVars, busVars, bootVars, netvmVars, commVars,
      cellVars>>

notBoot ==
    <<computerVars, memoryVars, busVars, netvmVars, commVars, cellVars, resetVars>>

notNetVM ==
    <<computerVars, memLast, busVars, clientVars, bootVars, commVars,
      cellVars, resetVars>>

notComm ==
    <<memoryVars, busVars, clientVars, bootVars, netvmVars, cellVars, resetVars>>

notCell ==
    <<computerVars, memoryVars, busVars, clientVars, bootVars, netvmVars,
      commVars, resetVars>>

(***************************************************************************)
(* Bounds                                                                  *)
(***************************************************************************)
\* Number of PriorityItems created in one behaviour (submissions accepted
\* plus resubmissions); it also bounds the timestamps, and producers submit
\* nothing once it is reached.
MaxTime == 4

(***************************************************************************)
(* Slot Store: margaret/core/memory.py                                     *)
(***************************************************************************)
\* Number of slots of the store (the constructor's argument).
MemSlots == 2

Shapes == {<<3, 3>>, <<3, 4>>}

Dtypes == {"float32", "int32"}

\* An ndarray: its shape, its dtype and its contents (an identifier).
Arrays ==
    {[kind |-> "ndarray", shape |-> s, dtype |-> d, val |-> v] :
        s \in Shapes, d \in Dtypes, v \in {0, 1}}

\* None, and a value that is neither None nor an ndarray (a list).
NoneValue == [kind |-> "None", shape |-> << >>, dtype |-> "", val |-> 0]

ListValue == [kind |-> "list", shape |-> << >>, dtype |-> "", val |-> 0]

Values == Arrays \cup {NoneValue, ListValue}

\* VirtualMemory.__typecheck: "True" or "False", or "AttributeError" when the
\* slot holds a value that is neither None nor an ndarray (it has no dtype).
TypeCheck(data, mem) ==
    IF data.kind # "ndarray" THEN "False"
    ELSE IF mem # NoneValue
         THEN IF mem.kind # "ndarray" THEN "AttributeError"
              ELSE IF mem.dtype # data.dtype THEN "False"
              ELSE IF mem.shape # data.shape THEN "False"
              ELSE "True"
         ELSE "True"

\* VirtualMemory.write: how the call ends, "ok" or the exception raised.
WriteResult(mem, slot, data, force) ==
    IF force /\ TypeCheck(data, mem[slot]) # "True"
    THEN IF TypeCheck(data, mem[slot]) = "False" THEN "TypeError"
         ELSE "AttributeError"
    ELSE "ok"

\* VirtualMemory.write: the store afterwards.
WriteMemory(mem, slot, data, force) ==
    IF WriteResult(mem, slot, data, force) = "ok"
    THEN [mem EXCEPT ![slot] = data]
    ELSE mem

\* VirtualMemory.shape
Shape(mem) ==
    [i \in DOMAIN mem |->
        IF mem[i].kind = "ndarray"
        THEN [set |-> TRUE, shape |-> mem[i].shape, dtype |-> mem[i].dtype]
        ELSE [set |-> FALSE, shape |-> << >>, dtype |-> ""]]

\* The record of the last operation on the store.
MemRecord(op, slot, data, force, result) ==
    [op |-> op, slot |-> slot, data |-> data, force |-> force,
     result |-> result]

\* VirtualMemory.write(slot, data, force)
Write(slot, data, force) ==
    /\ memory' = WriteMemory(memory, slot, data, force)
    /\ memLast' = MemRecord("write", slot, data, force,
                            WriteResult(memory, slot, data, force))
    /\ UNCHANGED notMemory

\* VirtualMemory.clear(slot)
Clear(slot) ==
    /\ memory' = [memory EXCEPT ![slot] = NoneValue]
    /\ memLast' = MemRecord("clear", slot, NoneValue, FALSE, "ok")
    /\ UNCHANGED notMemory

\* VirtualMemory.clear()
ClearAll ==
    /\ memory' = [i \in 1..MemSlots |-> NoneValue]
    /\ memLast' = MemRecord("clear", 0, NoneValue, FALSE, "ok")
    /\ UNCHANGED notMemory

\* VirtualMemory.__init__
InitMemoryVars ==
    /\ memory = [i \in 1..MemSlots |-> NoneValue]
    /\ memLast = MemRecord("init", 0, NoneValue, FALSE, "ok")

(***************************************************************************)
(* Messaging Bus: margaret/core/network.py (and margaret/siobus.py, whose  *)
(* BusMaster.append_relay is the same with "namespace" for "layer")        *)
(***************************************************************************)
\* Number of events peers emit in one behaviour; the hub's registrations are
\* followed up to the last of them.
MaxEmits == 1

\* Number of registrations on the hub in one behaviour.
MaxRegs == 2

Peers == {"A", "B", "C"}

Channels == {"/", "/x"}

EventNames == {"ping", "pong"}

\* The events Listener.registration_events registers handlers for.
SystemEvents == {"connect", "broadcast", "postjob", "disconnect"}

HubEvents == EventNames \cup SystemEvents

Payloads == {"d1", "d2"}

\* What is registered on the hub for an event of a channel: nothing, a
\* handler given to BusMaster.on, or the relay lambda of append_relay, which
\* closes over out_name and layer_name.
NoHandler == [kind |-> "none", out |-> "", layer |-> "", fn |-> ""]

\* The functions callers hand to BusMaster.on.
HandlerNames == {"f", "g"}

FuncHandler(f) == [kind |-> "func", out |-> "", layer |-> "", fn |-> f]

RelayHandler(layer_name, out_name) ==
    [kind |-> "relay", out |-> out_name, layer |-> layer_name, fn |-> ""]

\* The handler argument None of sio.on.
NoneHandler == [kind |-> "None", out |-> "", layer |-> "", fn |-> ""]

Message(event, data, namespace) ==
    [event |-> event, data |-> data, namespace |-> namespace]

\* sio.emit(event, data, namespace=..., skip_sid=...) on the server: the
\* message goes to every peer connected to the namespace but skip_sid.
ServerEmit(boxes, conn, event, data, namespace, skip_sid) ==
    [p \in Peers |->
        IF <<p, namespace>> \in conn /\ p # skip_sid
        THEN Append(boxes[p], Message(event, data, namespace))
        ELSE boxes[p]]

\* The relay lambda of append_relay without skip_sid.
RelayToAll(boxes, conn, handler, sid, data) ==
    ServerEmit(boxes, conn, handler.out, data, handler.layer, "nobody")

\* The handler append_relay registers, lines 205-209, called with the
\* sender's sid and the data.
Relay(boxes, conn, handler, sid, data) ==
    ServerEmit(boxes, conn, handler.out, data, handler.layer, sid)

\* The record of the last event the hub received from a peer.
BusRecord(op, peer, event, data, layer) ==
    [op |-> op, peer |-> peer, event |-> event, data |-> data,
     layer |-> layer]

Regs == Cardinality({k \in DOMAIN handlers : handlers[k] # NoHandler})

\* A registry in which a handler, once set for an event of a namespace, is
\* kept when the event is registered again.
SioOnKeepFirst(h, event, handler, namespace) ==
    IF handler = NoneHandler \/ h[<<namespace, event>>] # NoHandler THEN h
    ELSE [h EXCEPT ![<<namespace, event>>] = handler]

\* self.sio.on(event, handler, namespace=...) of socketio.Server: with a
\* handler it stores it as the handler of the event of the namespace, in
\* place of the one stored before; with handler None it stores nothing and
\* returns the decorator that would.
SioOn(h, event, handler, namespace) ==
    IF handler = NoneHandler THEN h
    ELSE [h EXCEPT ![<<namespace, event>>] = handler]

\* BusMaster.append_relay(layer_name, in_name, out_name); out_name = "" is
\* the default None, which relays under in_name.
AppendRelay(layer_name, in_name, out_name) ==
    /\ emits < MaxEmits
    /\ Regs < MaxRegs \/ handlers[<<layer_name, in_name>>] # NoHandler
    /\ LET handler == RelayHandler(layer_name,
                                    IF out_name = "" THEN in_name
                                    ELSE out_name)
       IN  /\ handlers' = SioOn(handlers, in_name, handler, layer_name)
           /\ registered' =
                  [registered EXCEPT ![<<layer_name, in_name>>] = handler]
    /\ layers' = layers \cup {layer_name}
    /\ UNCHANGED <<connected, inbox, emits, busLast, dispatched>>
    /\ UNCHANGED notBus

\* BusMaster.remove_relay(layer_name, in_name).
RemoveRelay(layer_name, in_name) ==
    /\ emits < MaxEmits
    /\ handlers' = SioOn(handlers, in_name, NoneHandler, layer_name)
    /\ registered' = [registered EXCEPT ![<<layer_name, in_name>>] = NoHandler]
    /\ UNCHANGED <<layers, connected, inbox, emits, busLast, dispatched>>
    /\ UNCHANGED notBus

\* BusMaster.on(event, handler, layer_name) with a handler of the caller.
HubOn(event, handler, layer_name) ==
    /\ emits < MaxEmits
    /\ Regs < MaxRegs \/ handlers[<<layer_name, event>>] # NoHandler
    /\ handlers' = SioOn(handlers, event, FuncHandler(handler), layer_name)
    /\ registered' =
           [registered EXCEPT ![<<layer_name, event>>] = FuncHandler(handler)]
    /\ UNCHANGED <<layers, connected, inbox, emits, busLast, dispatched>>
    /\ UNCHANGED notBus

\* BusMaster.off(event, layer_name).
HubOff(event, layer_name) ==
    /\ emits < MaxEmits
    /\ handlers' = SioOn(handlers, event, NoneHandler, layer_name)
    /\ registered' = [registered EXCEPT ![<<layer_name, event>>] = NoHandler]
    /\ UNCHANGED <<layers, connected, inbox, emits, busLast, dispatched>>
    /\ UNCHANGED notBus

\* The handlers of Listener.registration_events (communicator.py lines
\* 88-110) and DefaultConnectionEvents.registration_events (sioformat.py
\* lines 16-31), which close over the layer.
SystemHandler(event, layer_name) ==
    [kind |-> event, out |-> "", layer |-> layer_name, fn |-> ""]

\* BusMaster.emit(event, data, layer_name): sio.emit without skip_sid.
HubEmit(boxes, conn, event, data, layer_name) ==
    ServerEmit(boxes, conn, event, data, layer_name, "nobody")

\* {'message': 'new client connected.(sid)'}.
Notice(what, sid) == [message |-> what, id |-> sid]

\* {"id": sid, "payload": data["payload"]}, line 109.
Wrapped(sid, payload) == [id |-> sid, payload |-> payload]

\* Listener.registration_events with comm.layer = layer_name: the four
\* bus.on calls of lines 112-115.
RegistrationEvents(layer_name) ==
    /\ emits < MaxEmits
    /\ handlers[<<layer_name, "broadcast">>] = NoHandler
    /\ LET h == [k \in Channels \X HubEvents |->
                   IF k[1] = layer_name /\ k[2] \in SystemEvents
                   THEN SystemHandler(k[2], layer_name)
                   ELSE handlers[k]]
       IN  /\ handlers' = h
           /\ registered' = [k \in Channels \X HubEvents |->
                                IF h[k] # handlers[k] THEN h[k]
                                ELSE registered[k]]
    /\ UNCHANGED <<layers, connected, inbox, emits, busLast, dispatched>>
    /\ UNCHANGED notBus

\* The broadcast handler, lines 105-110, called with the sender's sid and
\* data = {emitName, payload}: an emit to everybody on the layer.
Broadcast(boxes, conn, handler, sid, emitName, payload) ==
    HubEmit(boxes, conn, emitName, Wrapped(sid, payload), handler.layer)

\* A connected peer emits "broadcast" with {emitName, payload}, and the hub
\* dispatches it to what is registered for "broadcast" on the layer.
PeerBroadcast(peer, layer_name, emitName, payload) ==
    /\ <<peer, layer_name>> \in connected
    /\ emits < MaxEmits
    /\ emits' = emits + 1
    /\ LET handler == handlers[<<layer_name, "broadcast">>]
       IN  /\ inbox' = (IF handler.kind = "broadcast"
                        THEN Broadcast(inbox, connected, handler, peer,
                                       emitName, payload)
                        ELSE inbox)
           /\ dispatched' = handler
    /\ busLast' = BusRecord("broadcast", peer, emitName, payload, layer_name)
    /\ UNCHANGED <<handlers, layers, connected, registered>>
    /\ UNCHANGED notBus

\* A peer's BusWorker connects to the hub on its layer (Bus.up with
\* BusWorker.set_layer); the hub calls the connect handler of the layer,
\* lines 88-93, whose notice goes to the layer with or without the peer
\* that is connecting.
PeerConnect(peer, layer_name) ==
    /\ <<peer, layer_name>> \notin connected
    /\ \A l \in Channels : <<peer, l>> \notin connected
    /\ connected' = connected \cup {<<peer, layer_name>>}
    /\ IF handlers[<<layer_name, "connect">>] = SystemHandler("connect",
                                                             layer_name)
       THEN \E conn \in {connected, connected'} :
               inbox' = HubEmit(inbox, conn, "broadcast",
                                Notice("connected", peer), layer_name)
       ELSE inbox' = inbox
    /\ UNCHANGED <<handlers, layers, emits, busLast, registered, dispatched>>
    /\ UNCHANGED notBus

\* BusWorker.emit(event, data) of a connected peer on its layer, and the
\* hub's dispatch of the event to what is registered for it.
PeerEmit(peer, layer_name, event, data) ==
    /\ <<peer, layer_name>> \in connected
    /\ emits < MaxEmits
    /\ emits' = emits + 1
    /\ LET handler == handlers[<<layer_name, event>>]
       IN  /\ inbox' = (IF handler.kind = "relay"
                        THEN Relay(inbox, connected, handler, peer, data)
                        ELSE inbox)
           /\ dispatched' = handler
    /\ busLast' = BusRecord("emit", peer, event, data, layer_name)
    /\ UNCHANGED <<handlers, layers, connected, registered>>
    /\ UNCHANGED notBus

\* BusMaster.__init__, and peers that are not connected yet.  emits counts
\* the events the hub has received, inbox[p] is what peer p has received,
\* registered[k] is what the last on, append_relay, off or remove_relay call
\* for k asked for, and dispatched is the handler the hub called for the
\* last event it received.
InitBusVars ==
    /\ handlers = [k \in Channels \X HubEvents |-> NoHandler]
    /\ layers = {}
    /\ connected = {}
    /\ inbox = [p \in Peers |-> << >>]
    /\ emits = 0
    /\ busLast = BusRecord("init", "", "", "", "")
    /\ registered = [k \in Channels \X HubEvents |-> NoHandler]
    /\ dispatched = NoHandler

(***************************************************************************)
(* Client-side flow control: margaret/client.py                            *)
(***************************************************************************)
\* Number of emit_sync calls in one behaviour.
MaxCalls == 3

\* Number of incoming events served by handlers registered with on_sync.
MaxSyncEvents == 2

\* Number of connect events after the one of boot.
MaxConnects == 1

\* The largest permit pool (option "buffer") a client is constructed with.
MaxBuffer == 2

\* The threads that call emit_sync.
Threads == {"t1", "t2"}

\* BoundedSemaphore(value)
BoundedSemaphore(value) == [value |-> value, bound |-> value]

\* acquire() that never waits.
CanAcquireAlways(semaphore) == TRUE

\* Semaphore.acquire(), called by emit_sync line 103: it returns only when
\* the value is positive, and decrements it.
CanAcquire(semaphore) == semaphore.value > 0

Acquire(semaphore) == [semaphore EXCEPT !.value = @ - 1]

\* BoundedSemaphore.release(): ValueError when the value is at the bound.
ReleaseRaises(semaphore) == semaphore.value >= semaphore.bound

\* A release() of a plain Semaphore: no bound.
ReleaseUnbounded(semaphore) == [semaphore EXCEPT !.value = @ + 1]

Release(semaphore) ==
    IF ReleaseRaises(semaphore) THEN semaphore
    ELSE [semaphore EXCEPT !.value = @ + 1]

\* Client.emit_sync: the call.  With a permit it emits at once, without one
\* the thread waits in acquire().
EmitSync(t) ==
    /\ tpc[t] = "idle"
    /\ calls < MaxCalls
    /\ calls' = calls + 1
    /\ IF CanAcquire(sem)
       THEN /\ sem' = Acquire(sem)
            /\ emitted' = emitted + 1
            /\ UNCHANGED tpc
       ELSE /\ tpc' = [tpc EXCEPT ![t] = "blocked"]
            /\ UNCHANGED <<sem, emitted>>
    /\ UNCHANGED <<buffer, epc, syncOn, handlerCalls, released, connects>>
    /\ UNCHANGED notClient

\* Client.emit_sync: a thread waiting in acquire() gets a permit and emits.
EmitSyncResume(t) ==
    /\ tpc[t] = "blocked"
    /\ CanAcquire(sem)
    /\ sem' = Acquire(sem)
    /\ emitted' = emitted + 1
    /\ tpc' = [tpc EXCEPT ![t] = "idle"]
    /\ UNCHANGED <<buffer, epc, syncOn, calls, handlerCalls, released,
                   connects>>
    /\ UNCHANGED notClient

\* Client.on_sync(name, callback)
OnSync ==
    /\ ~syncOn
    /\ syncOn' = TRUE
    /\ UNCHANGED <<buffer, sem, tpc, epc, calls, emitted, handlerCalls,
                   released, connects>>
    /\ UNCHANGED notClient

\* An incoming event served by new_func of dec_sync_count_down: it releases
\* a permit (a ValueError of the release is caught) and calls the callback.
SyncEvent ==
    /\ syncOn
    /\ epc = "idle"
    /\ handlerCalls < MaxSyncEvents
    /\ handlerCalls' = handlerCalls + 1
    /\ sem' = Release(sem)
    /\ released' = (IF ReleaseRaises(sem) THEN released ELSE released + 1)
    /\ UNCHANGED <<buffer, tpc, epc, syncOn, calls, emitted, connects>>
    /\ UNCHANGED notClient

\* A connect event after a reconnection: on_connect of on_default starts
\* _semaphore_all_release.
ConnectEvent ==
    /\ epc = "idle"
    /\ connects < MaxConnects
    /\ connects' = connects + 1
    /\ epc' = "release"
    /\ UNCHANGED <<buffer, sem, tpc, syncOn, calls, emitted, handlerCalls,
                   released>>
    /\ UNCHANGED notClient

\* Client._semaphore_all_release: one turn of its loop.
AllReleaseStep ==
    /\ epc = "release"
    /\ IF sem.value < buffer
       THEN /\ sem' = Release(sem)
            /\ released' = (IF ReleaseRaises(sem) THEN released
                            ELSE released + 1)
            /\ epc' = (IF ReleaseRaises(sem) THEN "idle" ELSE "release")
       ELSE /\ epc' = "idle"
            /\ UNCHANGED <<sem, released>>
    /\ UNCHANGED <<buffer, tpc, syncOn, calls, emitted, handlerCalls,
                   connects>>
    /\ UNCHANGED notClient

\* The arguments change_buffer is called with: the pool sizes up to one
\* above the largest a client is constructed with, and a value that is not
\* an int.
BufferArgs ==
    {[isInt |-> TRUE, val |-> n] : n \in 1..(MaxBuffer + 1)}
    \cup {[isInt |-> FALSE, val |-> 0]}

NoArg == [isInt |-> FALSE, val |-> 0]

\* No semaphore discarded yet.
NoSemaphore == [value |-> 0, bound |-> 0]

\* The call of change_buffer: where it is ("idle" before and after,
\* "release" in _semaphore_all_release), its argument, how it ended ("none"
\* while it has not, "True", "False", or "raise" for an exception leaving
\* it) and the semaphore _semaphore_set replaced, on which the threads that
\* were waiting in acquire() still wait.
ChangeRecord(at, buf, ret, old) ==
    [pc |-> at, arg |-> buf, ret |-> ret, old |-> old]

\* Client.change_buffer, lines 45, 46 and 49: a non-int returns False, an
\* int becomes the buffer and _semaphore_set starts.  One call in a
\* behaviour.
ChangeBuffer(buf) ==
    /\ changed.pc = "idle"
    /\ changed.ret = "none"
    /\ IF buf.isInt
       THEN /\ buffer' = buf.val
            /\ changed' = ChangeRecord("release", buf, "none", NoSemaphore)
       ELSE /\ changed' = ChangeRecord("idle", buf, "False", NoSemaphore)
            /\ UNCHANGED buffer
    /\ UNCHANGED <<sem, tpc, epc, syncOn, calls, emitted, handlerCalls,
                   released, connects>>
    /\ UNCHANGED notReset

\* Client._semaphore_set, one turn of the loop of _semaphore_all_release on
\* the semaphore in place: whether it releases, and whether that release
\* raises ValueError (nothing catches it).
SemaphoreSetTurn(semaphore, size) ==
    [raises |-> semaphore.value < size /\ ReleaseRaises(semaphore),
     release |-> semaphore.value < size /\ ~ReleaseRaises(semaphore)]

\* Client._semaphore_set inside change_buffer: a turn of the release loop
\* or, when the loop is over, the new BoundedSemaphore(self.buffer) and the
\* return of True.  The threads waiting in acquire() wait on the semaphore
\* that was replaced.
SemaphoreSetStep ==
    /\ changed.pc = "release"
    /\ LET turn == SemaphoreSetTurn(sem, buffer)
       IN  IF turn.raises
           THEN /\ changed' = ChangeRecord("idle", changed.arg, "raise",
                                           NoSemaphore)
                /\ UNCHANGED <<sem, tpc, released>>
           ELSE IF turn.release
           THEN /\ sem' = Release(sem)
                /\ released' = released + 1
                /\ UNCHANGED <<changed, tpc>>
           ELSE /\ sem' = BoundedSemaphore(buffer)
                /\ changed' = ChangeRecord("idle", changed.arg, "True", sem)
                /\ tpc' = [t \in Threads |->
                              IF tpc[t] = "blocked" THEN "stranded"
                              ELSE tpc[t]]
                /\ UNCHANGED released
    /\ UNCHANGED <<buffer, epc, syncOn, calls, emitted, handlerCalls,
                   connects>>
    /\ UNCHANGED notReset

\* Client.emit_sync: a thread waiting in acquire() on the semaphore that
\* was replaced gets one of the permits left on it and emits.
EmitSyncResumeOld(t) ==
    /\ tpc[t] = "stranded"
    /\ CanAcquire(changed.old)
    /\ changed' = [changed EXCEPT !.old = Acquire(@)]
    /\ emitted' = emitted + 1
    /\ tpc' = [tpc EXCEPT ![t] = "idle"]
    /\ UNCHANGED <<buffer, sem, epc, syncOn, calls, handlerCalls, released,
                   connects>>
    /\ UNCHANGED notReset

\* Client.__init__ with option buffer = n.
InitFlowVars ==
    /\ changed = ChangeRecord("idle", NoArg, "none", NoSemaphore)
    /\ buffer \in 1..MaxBuffer
    /\ sem = BoundedSemaphore(buffer)
    /\ tpc = [t \in Threads |-> "idle"]
    /\ epc = "idle"
    /\ syncOn = FALSE
    /\ calls = 0
    /\ emitted = 0
    /\ handlerCalls = 0
    /\ released = 0
    /\ connects = 0

\* The client after boot has returned, its connect event served.
Booted ==
    /\ bootpc = "done"
    /\ hubUp = TRUE
    /\ eioState = "connected"
    /\ evPending = FALSE
    /\ failures = 0
    /\ waited = 0

\* Client.__init__ with option buffer = n, then boot (whose connect event
\* finds the pool full).
InitClientVars == InitFlowVars /\ Booted

\* The client of the specifications of the other components.
IdleClient == InitClientVars /\ buffer = 1

(***************************************************************************)
(* Client boot: margaret/client.py Client.boot, with Bus.up, Worker.start   *)
(* and Bus._ready_wait of margaret/core/network.py                         *)
(***************************************************************************)
\* The failed attempts counted in one behaviour; later ones are not counted.
MaxFailures == 3

Min(a, b) == IF a < b THEN a ELSE b

\* time.sleep(1) between two attempts.
RetryDelay == 1

\* The handler of socketio.exceptions.ConnectionError in boot, lines
\* 114-116, that ends the call instead of sleeping.
AfterFailureGiveUp == "raised"

\* The handler of socketio.exceptions.ConnectionError in boot, lines
\* 114-116: log, sleep, and go round the loop again.
AfterFailure == "sleep"

\* Client.boot is called.
BootStart ==
    /\ bootpc = "idle"
    /\ bootpc' = "connect"
    /\ UNCHANGED <<hubUp, eioState, evPending, failures, waited>>
    /\ UNCHANGED <<clientVars, notBoot>>

\* self.bus.up(), line 112, up to the end of Worker.start: sio.connect
\* raises ConnectionError when the hub cannot be reached, and otherwise the
\* connection is there and the connect event is on its way.
BootConnect ==
    /\ bootpc = "connect"
    /\ IF hubUp
       THEN /\ eioState' = "connected"
            /\ evPending' = TRUE
            /\ bootpc' = "wait"
            /\ UNCHANGED failures
       ELSE /\ failures' = Min(failures + 1, MaxFailures)
            /\ bootpc' = AfterFailure
            /\ UNCHANGED <<eioState, evPending>>
    /\ UNCHANGED <<hubUp, waited>>
    /\ UNCHANGED <<clientVars, notBoot>>

\* time.sleep(1), line 116, and back to the head of the loop.
BootSleep ==
    /\ bootpc = "sleep"
    /\ waited' = Min(waited + RetryDelay, MaxFailures * RetryDelay)
    /\ bootpc' = "connect"
    /\ UNCHANGED <<hubUp, eioState, evPending, failures>>
    /\ UNCHANGED <<clientVars, notBoot>>

\* Bus._ready_wait of a worker, one turn: it leaves the loop when the
\* engine.io state is "connected" (bus.up returns, boot breaks and returns),
\* and sleeps 0.05 s otherwise.
ReadyWait ==
    /\ bootpc = "wait"
    /\ bootpc' = (IF eioState = "connected" THEN "done" ELSE "wait")
    /\ UNCHANGED <<hubUp, eioState, evPending, failures, waited>>
    /\ UNCHANGED <<clientVars, notBoot>>

\* The hub becomes reachable.
HubUp ==
    /\ ~hubUp
    /\ hubUp' = TRUE
    /\ UNCHANGED <<bootpc, eioState, evPending, failures, waited>>
    /\ UNCHANGED <<clientVars, notBoot>>

\* The hub becomes unreachable, and a connection to it is lost.
HubDown ==
    /\ hubUp
    /\ hubUp' = FALSE
    /\ eioState' = "disconnected"
    /\ evPending' = FALSE
    /\ UNCHANGED <<bootpc, failures, waited>>
    /\ UNCHANGED <<clientVars, notBoot>>

\* socketio.Client, constructed with its default reconnection=True in
\* Worker.__init__, connects again after a connection was lost.
Reconnect ==
    /\ bootpc \in {"wait", "done"}
    /\ hubUp
    /\ eioState = "disconnected"
    /\ eioState' = "connected"
    /\ evPending' = TRUE
    /\ UNCHANGED <<bootpc, hubUp, failures, waited>>
    /\ UNCHANGED <<clientVars, notBoot>>

\* The connect event of a new connection: on_connect of on_default starts
\* _semaphore_all_release.
OnConnect ==
    /\ evPending
    /\ epc = "idle"
    /\ evPending' = FALSE
    /\ epc' = "release"
    /\ UNCHANGED <<buffer, sem, tpc, syncOn, calls, emitted, handlerCalls,
                   released, connects>>
    /\ UNCHANGED <<bootpc, hubUp, eioState, failures, waited>>
    /\ UNCHANGED notBoot

\* Client.__init__ with option buffer = n, boot not called yet, the hub
\* reachable or not.
InitBootVars ==
    /\ bootpc = "idle"
    /\ hubUp \in BOOLEAN
    /\ eioState = "disconnected"
    /\ evPending = FALSE
    /\ failures = 0
    /\ waited = 0

(***************************************************************************)
(* Network Slot Store: margaret/core/netvm.py                              *)
(***************************************************************************)
\* Number of datagrams that arrive in one behaviour.
MaxDatagrams == 3

\* Number of calls of listen() in one behaviour.
MaxListens == 1

\* Sender addresses of datagrams.
Addrs == {"10.0.0.1"}

\* numpy's itemsize of a dtype.
ItemSize(dtype) == CASE dtype = "float32" -> 4 [] dtype = "int32" -> 4

\* ndarray.nbytes: the number of elements times the itemsize.
NBytes(array) == array.shape[1] * array.shape[2] * ItemSize(array.dtype)

\* NumpyFormat.encode(array): the item {"array", "dtype", "shape"}, the bytes
\* being their number and the contents; _typecheck raises TypeError for
\* anything but an ndarray.
TypeErrorItem == [array |-> [len |-> 0, val |-> 0], dtype |-> "TypeError",
                  shape |-> << >>]

Encode(array) ==
    IF array.kind # "ndarray" THEN TypeErrorItem
    ELSE [array |-> [len |-> NBytes(array), val |-> array.val],
          dtype |-> array.dtype, shape |-> array.shape]

\* NumpyFormat.decode(item): np.frombuffer makes a flat array of
\* len / itemsize elements, and reshape needs shape to have as many.
Decode(item) ==
    IF /\ item.array.len % ItemSize(item.dtype) = 0
       /\ item.array.len \div ItemSize(item.dtype)
             = item.shape[1] * item.shape[2]
    THEN [kind |-> "ndarray", shape |-> item.shape, dtype |-> item.dtype,
          val |-> item.array.val]
    ELSE [kind |-> "ValueError", shape |-> << >>, dtype |-> "", val |-> 0]

\* VirtualMemory.dump: how the call ends.
DumpResult(mem) ==
    IF \E i \in DOMAIN mem : Encode(mem[i]) = TypeErrorItem
    THEN "TypeError" ELSE "ok"

\* VirtualMemory.dump: the list of items.
Dump(mem) == [i \in DOMAIN mem |-> Encode(mem[i])]

\* VirtualMemory.load(item_list): the store afterwards.
Load(item_list) == [i \in DOMAIN item_list |-> Decode(item_list[i])]

\* memory.load(memory.dump())
DumpLoad ==
    /\ memory' = (IF DumpResult(memory) = "ok" THEN Load(Dump(memory))
                  ELSE memory)
    /\ memLast' = MemRecord("dump_load", 0, NoneValue, FALSE,
                            DumpResult(memory))
    /\ UNCHANGED notMemory

\* Byte lengths of the datagrams sent to a slot: empty, one less, equal, one
\* more and two more than the size of a (3,3) array, and the size of a (3,4)
\* array.
DatagramLens == {0, 35, 36, 37, 38, 48}

\* A datagram: its byte length, its contents (an identifier) and its sender.
Datagrams ==
    {[len |-> l, val |-> v, addr |-> a] :
        l \in DatagramLens, v \in {1}, a \in Addrs}

\* soc.recvfrom called with a buffer of exactly nbytes bytes.
RecvFromExact(len, mem) == Min(len, NBytes(mem))

\* soc.recvfrom(self.read(slot).nbytes + 1), line 40: the number of bytes
\* returned; a longer datagram is cut to the size of the buffer.
RecvFrom(len, mem) == Min(len, NBytes(mem) + 1)

\* The record of the last datagram a listener took from its socket.
NetRecord(n, slot, dgram, outcome) ==
    [n |-> n, slot |-> slot, len |-> dgram.len, val |-> dgram.val,
     addr |-> dgram.addr, outcome |-> outcome]

\* NetVM.listen: one more thread per slot is started with resv(slot).
Listen ==
    /\ listens < MaxListens
    /\ listens' = listens + 1
    /\ starting' = [i \in 1..MemSlots |-> starting[i] + 1]
    /\ UNCHANGED <<memory, lpc, nvCallbacks, nvFired, nvLast>>
    /\ UNCHANGED notNetVM

\* NetVM.resv up to its first recvfrom, lines 36-40.  bind raises OSError
\* when a living listener holds the slot's port, and the new thread ends.
\* Otherwise the size of the buffer is computed, which raises AttributeError
\* when the slot holds None (None has no nbytes) and ends the thread.
ResvStart(slot) ==
    /\ starting[slot] > 0
    /\ starting' = [starting EXCEPT ![slot] = @ - 1]
    /\ lpc' = [lpc EXCEPT ![slot] =
                  IF @ = "recv" THEN "recv"
                  ELSE IF memory[slot].kind = "ndarray" THEN "recv"
                  ELSE "dead"]
    /\ UNCHANGED <<memory, listens, nvCallbacks, nvFired, nvLast>>
    /\ UNCHANGED notNetVM

\* NetVM.resv, one turn of the loop (lines 40-47) for a datagram that has
\* arrived.  A datagram of another length than the slot's array is skipped.
\* For one of that length line 44 calls self.shape(slot), but
\* VirtualMemory.shape takes no argument: the call raises TypeError, which
\* nothing catches, so the thread ends before decode, write and the callback.
Resv(slot, dgram) ==
    /\ lpc[slot] = "recv"
    /\ nvLast.n < MaxDatagrams
    /\ IF RecvFrom(dgram.len, memory[slot]) # NBytes(memory[slot])
       THEN /\ nvLast' = NetRecord(nvLast.n + 1, slot, dgram, "continue")
            /\ UNCHANGED lpc
       ELSE /\ nvLast' = NetRecord(nvLast.n + 1, slot, dgram, "TypeError")
            /\ lpc' = [lpc EXCEPT ![slot] = "dead"]
    /\ UNCHANGED <<memory, starting, listens, nvCallbacks, nvFired>>
    /\ UNCHANGED notNetVM

\* NetVM.on(slot, callback) with a callable
NetOn(slot) ==
    /\ nvCallbacks' = [nvCallbacks EXCEPT ![slot] = "user"]
    /\ UNCHANGED <<memory, lpc, starting, listens, nvFired, nvLast>>
    /\ UNCHANGED notNetVM

\* NetVM.off(slot)
NetOff(slot) ==
    /\ nvCallbacks' = [nvCallbacks EXCEPT ![slot] = "default"]
    /\ UNCHANGED <<memory, lpc, starting, listens, nvFired, nvLast>>
    /\ UNCHANGED notNetVM

\* NetVM.__init__: no listener, the default callback on every slot.
InitNetVMVars ==
    /\ lpc = [i \in 1..MemSlots |-> "none"]
    /\ starting = [i \in 1..MemSlots |-> 0]
    /\ listens = 0
    /\ nvCallbacks = [i \in 1..MemSlots |-> "default"]
    /\ nvFired = [i \in 1..MemSlots |-> 0]
    /\ nvLast = NetRecord(0, 0, [len |-> 0, val |-> 0, addr |-> ""], "init")

\* The slots of a NetVM before listen(): left unset or seeded with an array
\* by write, as in the module's own example (lines 94-95).
SeededMemory ==
    [1..MemSlots ->
        {NoneValue} \cup {a \in Arrays : a.val = 0 /\ a.dtype = "float32"}]

(***************************************************************************)
(* Job Scheduler: margaret/computer.py                                     *)
(***************************************************************************)

\* Names are sequences of characters, so that str.startswith is computed.
NameF == <<"f">>
NameG == <<"g">>
NamePrivF == <<"_", "f">>
NamePrivX == <<"_", "x">>
NameEmpty == << >>

Names == {NameEmpty, NameF, NameG, NamePrivF, NamePrivX}

\* The compute unit of the model: f and _f are methods, every other name is
\* absent (getattr gives None).
CallableMembers == {NameF, NamePrivF}

\* Priorities a producer passes to add_queue.
Priorities == {1, 2}

\* The priority of a resubmitted continuable job.
LoopPriority == 10

Events == {"accept", "reject", "result", "send"}

\* A job as handed to add_queue.  isDict = FALSE stands for any value that is
\* not a dict; hasCall says whether the key "call" is present, callIsStr
\* whether its value is a str.  pr and time are the keys add_queue sets (0
\* before).  origin is a history field: the timestamp of the first
\* submission of the job (job.copy() keeps it).
MkJob(isDict, hasCall, callIsStr, call, payload) ==
    [isDict |-> isDict, hasCall |-> hasCall, callIsStr |-> callIsStr,
     call |-> call, payload |-> payload, pr |-> 0, time |-> 0, origin |-> 0]

NoJob == MkJob(FALSE, FALSE, FALSE, NameEmpty, "none")

\* The jobs producers submit: one that is not a dict, one without "call", one
\* whose "call" is not a str, and one for each name.
NewJobs ==
    {MkJob(FALSE, FALSE, FALSE, NameEmpty, "a"),
     MkJob(TRUE, FALSE, FALSE, NameEmpty, "a"),
     MkJob(TRUE, TRUE, FALSE, NameEmpty, "a")}
    \cup {MkJob(TRUE, TRUE, TRUE, n, "b") : n \in Names}

\* A startswith("_") that never holds.
StartsWithUnderscoreNever(name) == FALSE

\* str.startswith("_")
StartsWithUnderscore(name) == Len(name) > 0 /\ name[1] = "_"

\* _check_job without the test of the leading underscore.
CheckJobNoUnderscore(job) ==
    IF ~job.isDict THEN FALSE
    ELSE IF job.hasCall
         THEN IF ~job.callIsStr THEN FALSE
              ELSE IF job.call \notin CallableMembers THEN FALSE
              ELSE TRUE
         ELSE TRUE

\* Computer._check_job
CheckJob(job) ==
    IF ~job.isDict THEN FALSE
    ELSE IF job.hasCall
         THEN IF ~job.callIsStr THEN FALSE
              ELSE IF StartsWithUnderscore(job.call) THEN FALSE
              ELSE IF job.call \notin CallableMembers THEN FALSE
              ELSE TRUE
         ELSE TRUE

\* PriorityItem.__init__
PriorityItem(job, priority, time) ==
    [data |-> job, priority |-> priority, time |-> time]

\* PriorityItem.__lt__
Lt(a, b) ==
    IF a.priority < b.priority THEN TRUE
    ELSE IF a.time < b.time THEN TRUE
    ELSE FALSE

\* heapq._siftdown(heap, startpos, pos) with newitem = heap[pos]; positions
\* are 0-based as in heapq, h[pos + 1] is heap[pos].
RECURSIVE SiftDown(_, _, _, _)
SiftDown(h, startpos, pos, newitem) ==
    IF pos > startpos
    THEN LET parentpos == (pos - 1) \div 2
             parent == h[parentpos + 1]
         IN  IF Lt(newitem, parent)
             THEN SiftDown([h EXCEPT ![pos + 1] = parent], startpos,
                           parentpos, newitem)
             ELSE [h EXCEPT ![pos + 1] = newitem]
    ELSE [h EXCEPT ![pos + 1] = newitem]

\* heapq._siftup(heap, pos): the loop that moves the smaller child up until
\* a leaf is hit, then _siftdown of newitem from that leaf.
RECURSIVE SiftUpLoop(_, _, _, _)
SiftUpLoop(h, startpos, pos, newitem) ==
    LET endpos == Len(h)
        childpos == 2 * pos + 1
        rightpos == childpos + 1
    IN  IF childpos < endpos
        THEN LET c == IF rightpos < endpos
                         /\ ~Lt(h[childpos + 1], h[rightpos + 1])
                      THEN rightpos ELSE childpos
             IN  SiftUpLoop([h EXCEPT ![pos + 1] = h[c + 1]], startpos, c,
                            newitem)
        ELSE SiftDown([h EXCEPT ![pos + 1] = newitem], startpos, pos, newitem)

\* heapq.heappush, as called by PriorityQueue._put
HeapPush(h, item) ==
    SiftDown(Append(h, item), 0, Len(h), item)

\* heapq.heappop, as called by PriorityQueue._get: the item returned
HeapTop(h) == h[1]

\* heapq.heappop: the heap left
HeapPop(h) ==
    LET lastelt == h[Len(h)]
        rest == SubSeq(h, 1, Len(h) - 1)
    IN  IF Len(rest) > 0
        THEN SiftUpLoop([rest EXCEPT ![1] = lastelt], 0, 0, lastelt)
        ELSE rest

\* Computer._trigger_event: "absent" when no callback is registered for the
\* event, else the outcome of the callback ("ok" when it returns, "raise"
\* when it raises; the exception propagates, nothing catches it).
TriggerEvent(event, outcome) ==
    IF event \notin callbacks THEN "absent" ELSE outcome

\* add_queue that puts the job whatever _check_job says.
AddQueuePutUnchecked(heap, now, job, priority) ==
    LET stamped == [job EXCEPT !.time = now + 1, !.pr = priority,
                               !.origin = IF @ = 0 THEN now + 1 ELSE @]
    IN  [q |-> HeapPush(heap, PriorityItem(stamped, priority, now + 1)),
         clock |-> now + 1,
         event |-> IF CheckJob(job) THEN "accept" ELSE "reject",
         ret |-> IF CheckJob(job) THEN "True" ELSE "False"]

\* Computer.add_queue up to and including the put: the job as stored, the
\* queue and the clock afterwards, the event it goes on to trigger and the
\* value it returns if the callback returns.
AddQueuePut(heap, now, job, priority) ==
    IF CheckJob(job)
    THEN LET stamped == [job EXCEPT !.time = now + 1, !.pr = priority,
                                    !.origin = IF @ = 0 THEN now + 1 ELSE @]
         IN  [q |-> HeapPush(heap, PriorityItem(stamped, priority, now + 1)),
              clock |-> now + 1, event |-> "accept", ret |-> "True"]
    ELSE [q |-> heap, clock |-> now, event |-> "reject", ret |-> "False"]

\* What the compute unit does with a job: it raises, returns None, or
\* returns a dict with or without the keys "loop" (true) and "info".
NoOutput == [kind |-> "none", loop |-> FALSE, info |-> FALSE]

Outputs ==
    {[kind |-> "raise", loop |-> FALSE, info |-> FALSE],
     [kind |-> "None", loop |-> FALSE, info |-> FALSE]}
    \cup {[kind |-> "dict", loop |-> l, info |-> i] :
             l \in BOOLEAN, i \in BOOLEAN}

\* The record of the last step: the operation, the job it was given, the
\* callbacks it fired, how it ended ("True" and "False" are add_queue's
\* return values, "raise" an exception leaving the operation) and, for an
\* iteration of run, what the compute unit did, whether the job was
\* resubmitted, how the compute unit was invoked ("none" when it was not)
\* and the "datacnt" written into the info of the result (0 when
\* _exec_queue returned no annotated result).
Record(op, job, fired, ret, output, requeued, path, cnt) ==
    [op |-> op, job |-> job, fired |-> fired, ret |-> ret,
     output |-> output, requeued |-> requeued, path |-> path,
     datacnt |-> cnt]

\* Computer.add_queue called by a thread; cb is what the callback does if
\* one fires.
AddQueueCall(job, priority, cb) ==
    /\ LET put == AddQueuePut(q, clock, job, priority)
           out == TriggerEvent(put.event, cb)
       IN  /\ cb = "raise" => out = "raise"
           /\ q' = put.q
           /\ clock' = put.clock
           /\ last' = Record("add_queue", job,
                             IF out = "absent" THEN {} ELSE {put.event},
                             IF out = "raise" THEN "raise" ELSE put.ret,
                             NoOutput, FALSE, "none", 0)
    /\ UNCHANGED <<callbacks, pc, cur, datacnt>>

\* add_queue called by a producer thread, while timestamps are left.
AddQueueStep(job, priority, cb) ==
    /\ clock < MaxTime
    /\ AddQueueCall(job, priority, cb)

\* add_queue called by a producer of the scheduler on its own.
AddQueue(job, priority, cb) ==
    /\ AddQueueStep(job, priority, cb)
    /\ UNCHANGED notComputer

\* Computer.run, line 198: the blocking get.
RunGetStep ==
    /\ pc = "get"
    /\ Len(q) > 0
    /\ cur' = HeapTop(q).data
    /\ q' = HeapPop(q)
    /\ pc' = "exec"
    /\ last' = Record("get", HeapTop(q).data, {}, "ok", NoOutput, FALSE,
                     "none", 0)
    /\ UNCHANGED <<clock, callbacks, datacnt>>

\* The get of a scheduler on its own.
RunGet ==
    /\ RunGetStep
    /\ UNCHANGED notComputer

\* The places of one iteration of run where a callback can raise.
FailPoints == {"none", "accept", "result", "send"}

\* _exec_queue that resubmits every job whose output is a dict.
LoopPutAlways(heap, now, job, output) ==
    IF output.kind = "dict"
    THEN [q |-> HeapPush(heap, PriorityItem([job EXCEPT !.time = now + 1,
                                                        !.pr = LoopPriority],
                                            LoopPriority, now + 1)),
          clock |-> now + 1, event |-> "accept", ret |-> "True"]
    ELSE [q |-> heap, clock |-> now, event |-> "none", ret |-> "nocall"]

\* Computer._exec_queue, lines 142-144: the resubmission of a continuable
\* job, as the put of add_queue(job.copy(), 10).
LoopPut(heap, now, job, output) ==
    IF output.kind = "dict" /\ output.loop
    THEN AddQueuePut(heap, now, job, LoopPriority)
    ELSE [q |-> heap, clock |-> now, event |-> "none", ret |-> "nocall"]

\* _exec_queue that counts only the jobs whose output is not None.
DatacntNonNull(cnt, output) ==
    IF output.kind = "None" THEN cnt ELSE cnt + 1

\* Computer._exec_queue, lines 125-126: self.__datacnt after the increment,
\* made before the compute unit is called, whatever its output is going to
\* be; the local copy is what machine_info carries.
Datacnt(cnt, output) == cnt + 1

\* Computer._compute: how the compute unit is invoked for a job.
ComputePath(job) ==
    IF job.hasCall THEN "getattr" ELSE "default"

\* Whether an iteration of run on the current job resubmits it.
Looped(output) ==
    /\ output.kind # "raise"
    /\ LoopPut(q, clock, cur, output).event # "none"

\* One iteration of Computer.run after the get: _exec_queue, then the
\* result and send callbacks, then task_done.  fail names the callback that
\* raises, if it fires.
RunIteration(output, fail) ==
    /\ pc = "exec"
    /\ datacnt' = Datacnt(datacnt, output)
    /\ LET put == IF output.kind = "raise"
                  THEN [q |-> q, clock |-> clock, event |-> "none",
                        ret |-> "nocall"]
                  ELSE LoopPut(q, clock, cur, output)
           looped == put.event # "none"
           acc == IF looped
                  THEN TriggerEvent(put.event,
                                    IF fail = "accept" THEN "raise" ELSE "ok")
                  ELSE "absent"
           \* output["info"].update(...) raises KeyError without "info"
           execOk == /\ output.kind # "raise"
                     /\ acc # "raise"
                     /\ (output.kind = "dict" => output.info)
           res == IF execOk
                  THEN TriggerEvent("result",
                                    IF fail = "result" THEN "raise" ELSE "ok")
                  ELSE "absent"
           snd == IF execOk /\ res # "raise" /\ output.kind = "dict"
                  THEN TriggerEvent("send",
                                    IF fail = "send" THEN "raise" ELSE "ok")
                  ELSE "absent"
           alive == execOk /\ res # "raise" /\ snd # "raise"
       IN  /\ fail = "accept" => acc = "raise"
           /\ fail = "result" => res = "raise"
           /\ fail = "send" => snd = "raise"
           /\ q' = put.q
           /\ clock' = put.clock
           /\ last' = Record("exec", cur,
                             {e \in {"accept"} : acc # "absent"}
                             \cup {e \in {"result"} : res # "absent"}
                             \cup {e \in {"send"} : snd # "absent"},
                             IF alive THEN "ok" ELSE "raise",
                             output, put.event = "accept", ComputePath(cur),
                             IF execOk /\ output.kind = "dict"
                             THEN datacnt' ELSE 0)
           /\ pc' = (IF alive THEN "get" ELSE "dead")
           /\ cur' = (IF alive THEN NoJob ELSE cur)
    /\ UNCHANGED callbacks

\* An iteration of run, while a timestamp is left for the resubmission.
RunExecStep(output, fail) ==
    /\ Looped(output) => clock < MaxTime
    /\ RunIteration(output, fail)

\* An iteration of a scheduler on its own.
RunExec(output, fail) ==
    /\ RunExecStep(output, fail)
    /\ UNCHANGED notComputer

\* The callbacks the constructor is given (it registers each with
\* set_event): none or all.
CallbackConfigs == {{}, Events}

\* Computer.__init__
InitQueueVars ==
    /\ q = << >>
    /\ clock = 0
    /\ pc = "get"
    /\ cur = NoJob
    /\ datacnt = 0
    /\ last = Record("init", NoJob, {}, "ok", NoOutput, FALSE, "none", 0)

\* Computer.__init__ with the callbacks it is given.
InitComputerVars == InitQueueVars /\ callbacks \in CallbackConfigs

\* The scheduler of the specifications of the other components: constructed
\* without callbacks, never used.
IdleComputer == InitComputerVars /\ callbacks = {}

(***************************************************************************)
(* Communicator: margaret/communicator.py                                  *)
(***************************************************************************)
\* Number of postjob events the hub delivers in one behaviour.
MaxPosts == 2

\* The priority add_queue takes when the caller gives none.
DefaultPriority == 3

\* What a transform (encoder or decoder) does with its argument: it returns
\* a value, returns None, or raises.
TransformOutcomes == {"value", "None", "raise"}

\* The jobs peers post: something that is not a dict, a job for the
\* capability f, and a job for a name that starts with an underscore.
PostedJobs ==
    {MkJob(FALSE, FALSE, FALSE, NameEmpty, "a"),
     MkJob(TRUE, TRUE, TRUE, NameF, "b"),
     MkJob(TRUE, TRUE, TRUE, NamePrivF, "b")}

\* A control event as emitted on the communicator's layer.
ControlEvent(event, data) == [event |-> event, data |-> data]

NoData == [payload |-> "None", decoded |-> FALSE]

\* The record of the last postjob event handled: its number, what the
\* encoder did ("unset" without an encoder), whether
\* add_queue was called and how the handler ended; dec is what the decoder
\* did in the last call of Sender.answer since.
CommRecord(n, enc, submitted, ret) ==
    [n |-> n, enc |-> enc, submitted |-> submitted, ret |-> ret,
     dec |-> "none"]

\* postjob_exec that accepts whatever add_queue returns.
PostControlAlwaysAccept(enc, ret) ==
    IF enc = "None" THEN "reject" ELSE "accept"

\* Listener.postjob_exec, lines 73-83: the control event the handler goes on
\* to emit, given what the encoder did and what add_queue returned.
PostControl(enc, ret) ==
    IF enc = "None" THEN "reject"
    ELSE IF ret # "True" THEN "reject"
    ELSE "accept"

\* Listener.postjob_exec up to the control event: the encoder, then
\* add_queue(job) at the default priority.  encoded is the job the encoder
\* returns; cb is what a callback of the scheduler does if one fires.  An
\* exception of the encoder or of that callback leaves the handler, which
\* then emits nothing.
PostJobExec(job, enc, encoded, cb) ==
    /\ cpc = "idle"
    /\ commLast.n < MaxPosts
    /\ encoderSet <=> enc # "unset"
    /\ enc # "value" => encoded = job
    /\ IF enc \in {"None", "raise"}
       THEN /\ cb = "ok"
            /\ cpc' = (IF enc = "None" THEN PostControl(enc, "none")
                       ELSE "idle")
            /\ commLast' = CommRecord(commLast.n + 1, enc, FALSE,
                                      IF enc = "None" THEN "none"
                                      ELSE "raise")
            /\ UNCHANGED computerVars
       ELSE /\ AddQueueStep(encoded, DefaultPriority, cb)
            /\ cpc' = (IF last'.ret = "raise" THEN "idle"
                       ELSE PostControl(enc, last'.ret))
            /\ commLast' = CommRecord(commLast.n + 1, enc, TRUE,
                                      last'.ret)
    /\ UNCHANGED <<encoderSet, outbox>>
    /\ UNCHANGED notComm

\* Sender.accept_job and Sender.reject_job: the control event goes out.
PostJobEmit ==
    /\ cpc # "idle"
    /\ outbox' = Append(outbox, ControlEvent(cpc, NoData))
    /\ cpc' = "idle"
    /\ UNCHANGED <<encoderSet, commLast>>
    /\ UNCHANGED computerVars
    /\ UNCHANGED notComm

\* Sender.answer that emits the result also when the decoder returns None.
AnswerUnchecked(box, result, dec) ==
    IF dec = "raise" THEN box
    ELSE Append(box, ControlEvent("answer",
                                  [payload |-> result,
                                   decoded |-> dec = "value"]))

\* Sender.answer, lines 127-138: the layer's traffic afterwards.  result
\* stands for the scheduler's result (identified by its job's payload); dec
\* is what the decoder does, "unset" without a decoder.
Answer(box, result, dec) ==
    IF dec \in {"None", "raise"} THEN box
    ELSE Append(box, ControlEvent("answer",
                                  [payload |-> result,
                                   decoded |-> dec = "value"]))

\* The scheduler's get, with a communicator in front.
CommRunGet ==
    /\ RunGetStep
    /\ UNCHANGED commVars
    /\ UNCHANGED notComm

\* One iteration of the scheduler's run with Sender.answer as its send
\* callback (Communicator.boot, line 50).  fail names the user's callback
\* that raises, if it fires; dec is what the decoder does if answer runs.  An
\* exception of the decoder leaves answer and so the send callback.
CommRunExec(output, fail, dec) ==
    /\ fail # "send"
    /\ encoderSet <=> dec # "unset"
    /\ RunExecStep(output, IF dec = "raise" THEN "send" ELSE fail)
    /\ outbox' = (IF "send" \in last'.fired
                  THEN Answer(outbox, cur.payload, dec)
                  ELSE outbox)
    /\ commLast' = [commLast EXCEPT !.dec = IF "send" \in last'.fired
                                              THEN dec ELSE "none"]
    /\ UNCHANGED <<encoderSet, cpc>>
    /\ UNCHANGED notComm

\* Communicator.__init__: no traffic yet.  The encoder and the decoder are
\* both given or both left out (lines 29-35).
InitCommVars ==
    /\ encoderSet \in BOOLEAN
    /\ cpc = "idle"
    /\ outbox = << >>
    /\ commLast = CommRecord(0, "init", FALSE, "none")

IdleComm == InitCommVars /\ encoderSet = FALSE

(***************************************************************************)
(* Pipeline Stage: margaret/core/cell.py                                   *)
(***************************************************************************)
\* Number of operations the caller starts on the Cell in one behaviour.
MaxOps == 3

A33 == [kind |-> "ndarray", shape |-> <<3, 3>>, dtype |-> "float32", val |-> 0]

A34 == [kind |-> "ndarray", shape |-> <<3, 4>>, dtype |-> "float32", val |-> 0]

\* The values the slots of the Cell's stores hold.
CellValues == {NoneValue, A33, A34}

\* The stores handed to connect: one slot, unset or set, or two slots.
ConnectStores == {<<NoneValue>>, <<A33>>, <<A34>>, <<A33, A33>>}

\* VirtualMemory.is_shape_equal
IsShapeEqual(own, other) ==
    IF Len(own) # Len(other) THEN FALSE
    ELSE \A i \in DOMAIN own : Shape(own)[i] = Shape(other)[i]

\* The compute unit and the hooks of the model: the compute unit turns a
\* (3,3) array into a (3,4) array and anything else into a (3,3) array; the
\* hooks return their argument with its contents marked.
ModelFn(x) == IF x = A33 THEN A34 ELSE A33

FetchFn(x) == x

WritebackFn(x) == [x EXCEPT !.val = 1]

\* The record of the last operation the caller started: its number, its
\* name, how it ended ("pending" while it runs), and the number of writes to
\* the drain that were complete when it started.
CellRecord(n, op, ret, w) == [n |-> n, op |-> op, ret |-> ret, w |-> w]

\* ---- the caller ----

\* Cell.trigger(): the gate is set.
TriggerAsync ==
    /\ callerpc = "idle"
    /\ cellLast.n < MaxOps
    /\ gate' = TRUE
    /\ cellLast' = CellRecord(cellLast.n + 1, "trigger", "ok", writes)
    /\ UNCHANGED <<source, drain, lockRef, lockHeld, exit, fetchSet,
                   writebackSet, cellpc, wb, callerpc, writes>>
    /\ UNCHANGED notCell

\* Cell.trigger(sync=True), line 49: the gate is set; _internal_block
\* follows.
TriggerSync ==
    /\ callerpc = "idle"
    /\ cellLast.n < MaxOps
    /\ gate' = TRUE
    /\ callerpc' = "block"
    /\ cellLast' = CellRecord(cellLast.n + 1, "trigger_sync", "pending",
                              writes)
    /\ UNCHANGED <<source, drain, lockRef, lockHeld, exit, fetchSet,
                   writebackSet, cellpc, wb, writes>>
    /\ UNCHANGED notCell

\* Cell._internal_block, line 37: with a lock in place the call returns at
\* once.
BlockCheck ==
    /\ callerpc = "block"
    /\ IF lockRef = "None"
       THEN callerpc' = "new" /\ UNCHANGED cellLast
       ELSE callerpc' = "idle" /\ cellLast' = [cellLast EXCEPT !.ret = "ok"]
    /\ UNCHANGED <<source, drain, gate, lockRef, lockHeld, exit, fetchSet,
                   writebackSet, cellpc, wb, writes>>
    /\ UNCHANGED notCell

\* Cell._internal_block, line 38: a new, free lock.
BlockNew ==
    /\ callerpc = "new"
    /\ lockRef' = "Lock"
    /\ lockHeld' = FALSE
    /\ callerpc' = "acquire1"
    /\ UNCHANGED <<source, drain, gate, exit, fetchSet, writebackSet, cellpc,
                   wb, writes, cellLast>>
    /\ UNCHANGED notCell

\* Cell._internal_block, line 39: self._lock.acquire(blocking=False).  When
\* the run loop has set self._lock to None meanwhile, the attribute access
\* raises AttributeError.
BlockAcquire1 ==
    /\ callerpc = "acquire1"
    /\ IF lockRef = "None"
       THEN /\ callerpc' = "idle"
            /\ cellLast' = [cellLast EXCEPT !.ret = "AttributeError"]
            /\ UNCHANGED lockHeld
       ELSE /\ callerpc' = "acquire2"
            /\ lockHeld' = TRUE
            /\ UNCHANGED cellLast
    /\ UNCHANGED <<source, drain, gate, lockRef, exit, fetchSet,
                   writebackSet, cellpc, wb, writes>>
    /\ UNCHANGED notCell

\* Cell._internal_block, line 40: self._lock is read for the blocking
\* acquire; AttributeError when it is None by now.
BlockAcquire2 ==
    /\ callerpc = "acquire2"
    /\ IF lockRef = "None"
       THEN /\ callerpc' = "idle"
            /\ cellLast' = [cellLast EXCEPT !.ret = "AttributeError"]
       ELSE /\ callerpc' = "blocked"
            /\ UNCHANGED cellLast
    /\ UNCHANGED <<source, drain, gate, lockRef, lockHeld, exit, fetchSet,
                   writebackSet, cellpc, wb, writes>>
    /\ UNCHANGED notCell

\* Cell._internal_block, line 40: the blocking acquire gets the lock once it
\* is free, and trigger returns.
BlockWake ==
    /\ callerpc = "blocked"
    /\ ~lockHeld
    /\ lockHeld' = TRUE
    /\ callerpc' = "idle"
    /\ cellLast' = [cellLast EXCEPT !.ret = "ok"]
    /\ UNCHANGED <<source, drain, gate, lockRef, exit, fetchSet,
                   writebackSet, cellpc, wb, writes>>
    /\ UNCHANGED notCell

\* Cell.stop, line 59: the exit flag.
Stop ==
    /\ callerpc = "idle"
    /\ cellLast.n < MaxOps
    /\ exit' = TRUE
    /\ callerpc' = "stop"
    /\ cellLast' = CellRecord(cellLast.n + 1, "stop", "pending", writes)
    /\ UNCHANGED <<source, drain, gate, lockRef, lockHeld, fetchSet,
                   writebackSet, cellpc, wb, writes>>
    /\ UNCHANGED notCell

\* Cell.stop that does not trigger.
StopTriggerNone(g) == g

\* Cell.stop, line 60: self.trigger() sets the gate.
StopTrigger(g) == TRUE

StopSetGate ==
    /\ callerpc = "stop"
    /\ gate' = StopTrigger(gate)
    /\ callerpc' = "idle"
    /\ cellLast' = [cellLast EXCEPT !.ret = "ok"]
    /\ UNCHANGED <<source, drain, lockRef, lockHeld, exit, fetchSet,
                   writebackSet, cellpc, wb, writes>>
    /\ UNCHANGED notCell

\* Cell.is_ready
IsReady ==
    /\ callerpc = "idle"
    /\ cellLast.n < MaxOps
    /\ cellLast' = CellRecord(cellLast.n + 1, "is_ready",
                              IF ~gate THEN "True" ELSE "False", writes)
    /\ UNCHANGED <<source, drain, gate, lockRef, lockHeld, exit, fetchSet,
                   writebackSet, cellpc, wb, callerpc, writes>>
    /\ UNCHANGED notCell

\* Cell.connect, lines 69-76: the store is compared with the source,
\* whichever side is replaced.
ConnectResult(src, drn, mem, before) ==
    IF ~IsShapeEqual(src, mem)
    THEN [ret |-> "False", source |-> src, drain |-> drn]
    ELSE IF before
    THEN [ret |-> "True", source |-> mem, drain |-> drn]
    ELSE [ret |-> "True", source |-> src, drain |-> mem]

\* Cell.connect(mem, before)
Connect(mem, before) ==
    /\ callerpc = "idle"
    /\ cellLast.n < MaxOps
    /\ LET r == ConnectResult(source, drain, mem, before)
       IN  /\ source' = r.source
           /\ drain' = r.drain
           /\ cellLast' = [n |-> cellLast.n + 1, op |-> "connect",
                           ret |-> r.ret, w |-> writes, mem |-> mem,
                           before |-> before]
    /\ UNCHANGED <<gate, lockRef, lockHeld, exit, fetchSet, writebackSet,
                   cellpc, wb, callerpc, writes>>
    /\ UNCHANGED notCell

\* self.source.write(0, data) by the stage upstream: VirtualMemory.write
\* without force.
SourceWrite(data) ==
    /\ callerpc = "idle"
    /\ cellLast.n < MaxOps
    /\ source' = WriteMemory(source, 1, data, FALSE)
    /\ cellLast' = CellRecord(cellLast.n + 1, "write", "ok", writes)
    /\ UNCHANGED <<drain, gate, lockRef, lockHeld, exit, fetchSet,
                   writebackSet, cellpc, wb, callerpc, writes>>
    /\ UNCHANGED notCell

\* ---- the run loop ----

\* Cell.run, line 108: the loop's test of the exit flag.
RunWhile ==
    /\ cellpc = "while"
    /\ cellpc' = (IF exit THEN "stopped" ELSE "wait")
    /\ UNCHANGED <<source, drain, gate, lockRef, lockHeld, exit, fetchSet,
                   writebackSet, wb, callerpc, writes, cellLast>>
    /\ UNCHANGED notCell

\* Cell.run, line 109: self._gate.wait() returns once the gate is set.
RunWait ==
    /\ cellpc = "wait"
    /\ gate
    /\ cellpc' = "compute"
    /\ UNCHANGED <<source, drain, gate, lockRef, lockHeld, exit, fetchSet,
                   writebackSet, wb, callerpc, writes, cellLast>>
    /\ UNCHANGED notCell

\* Cell.run, lines 111-118: the source is read, the fetch hook (if set), the
\* compute unit and the writeback hook (if set) are applied.  Without a
\* writeback hook the local variable writeback stays unbound.
RunCompute ==
    /\ cellpc = "compute"
    /\ LET fetch == IF fetchSet THEN FetchFn(source[1]) ELSE source[1]
           excute == ModelFn(fetch)
       IN  wb' = (IF writebackSet THEN WritebackFn(excute) ELSE NoneValue)
    /\ cellpc' = "write"
    /\ UNCHANGED <<source, drain, gate, lockRef, lockHeld, exit, fetchSet,
                   writebackSet, callerpc, writes, cellLast>>
    /\ UNCHANGED notCell

\* Cell.run, line 120: self.drain.write(0, writeback).  With writeback
\* unbound the statement raises UnboundLocalError, which ends the thread.
RunWrite ==
    /\ cellpc = "write"
    /\ IF writebackSet
       THEN /\ drain' = WriteMemory(drain, 1, wb, FALSE)
            /\ writes' = writes + 1
            /\ cellpc' = "clear"
       ELSE /\ cellpc' = "dead"
            /\ UNCHANGED <<drain, writes>>
    /\ wb' = NoneValue
    /\ UNCHANGED <<source, gate, lockRef, lockHeld, exit, fetchSet,
                   writebackSet, callerpc, cellLast>>
    /\ UNCHANGED notCell

\* A cycle end that leaves the gate as it is.
GateClearNone(g) == g

\* threading.Event.clear(): the flag is lowered, however often it was set.
GateClear(g) == FALSE

\* Cell.run, line 125: self._gate.clear()
RunClear ==
    /\ cellpc = "clear"
    /\ gate' = GateClear(gate)
    /\ cellpc' = "release"
    /\ UNCHANGED <<source, drain, lockRef, lockHeld, exit, fetchSet,
                   writebackSet, wb, callerpc, writes, cellLast>>
    /\ UNCHANGED notCell

\* Cell._internal_release, line 43: the test of self._lock.
ReleaseCheck ==
    /\ cellpc = "release"
    /\ cellpc' = (IF lockRef # "None" THEN "unlock" ELSE "while")
    /\ UNCHANGED <<source, drain, gate, lockRef, lockHeld, exit, fetchSet,
                   writebackSet, wb, callerpc, writes, cellLast>>
    /\ UNCHANGED notCell

\* Cell._internal_release, line 44: self._lock.release(); releasing a lock
\* that is not held raises RuntimeError, which ends the thread.
ReleaseUnlock ==
    /\ cellpc = "unlock"
    /\ IF lockHeld
       THEN lockHeld' = FALSE /\ cellpc' = "discard"
       ELSE cellpc' = "dead" /\ UNCHANGED lockHeld
    /\ UNCHANGED <<source, drain, gate, lockRef, exit, fetchSet,
                   writebackSet, wb, callerpc, writes, cellLast>>
    /\ UNCHANGED notCell

\* Cell._internal_release, line 45: self._lock = None
ReleaseDiscard ==
    /\ cellpc = "discard"
    /\ lockRef' = "None"
    /\ cellpc' = "while"
    /\ UNCHANGED <<source, drain, gate, lockHeld, exit, fetchSet,
                   writebackSet, wb, callerpc, writes, cellLast>>
    /\ UNCHANGED notCell

\* Cell.__init__ and set_func before start(): two one-slot stores, the gate
\* lowered, no lock, the hooks set or not; the thread is started.
InitCellVars ==
    /\ source = <<NoneValue>>
    /\ drain = <<NoneValue>>
    /\ gate = FALSE
    /\ lockRef = "None"
    /\ lockHeld = FALSE
    /\ exit = FALSE
    /\ fetchSet \in BOOLEAN
    /\ writebackSet \in BOOLEAN
    /\ cellpc = "while"
    /\ wb = NoneValue
    /\ callerpc = "idle"
    /\ writes = 0
    /\ cellLast = CellRecord(0, "init", "ok", 0)

IdleCell == InitCellVars /\ ~fetchSet /\ ~writebackSet

InitComputer ==
    InitComputerVars /\ InitMemoryVars /\ InitBusVars /\ IdleClient
    /\ InitNetVMVars /\ IdleComm /\ IdleCell

NextComputer ==
    \/ \E job \in NewJobs, priority \in Priorities, cb \in {"ok", "raise"} :
          AddQueue(job, priority, cb)
    \/ RunGet
    \/ \E output \in Outputs, fail \in FailPoints : RunExec(output, fail)

SpecComputer == InitComputer /\ [][NextComputer]_vars

\* The scheduler under load: several producers submit valid jobs while the
\* scheduler thread runs; no callback raises.  MaxEntries bounds the
\* PriorityItems created in one behaviour.
MaxEntries == 5

\* The jobs that pass _check_job.
ValidJobs == {job \in NewJobs : CheckJob(job)}

\* add_queue called by one of the producer threads.
LoadAddQueue(job, priority) ==
    /\ clock < MaxEntries
    /\ AddQueueCall(job, priority, "ok")
    /\ UNCHANGED notComputer

\* An iteration of run of the scheduler thread.
LoadExec(output) ==
    /\ Looped(output) => clock < MaxEntries
    /\ RunIteration(output, "none")
    /\ UNCHANGED notComputer

NextLoad ==
    \/ \E job \in ValidJobs, priority \in Priorities :
          LoadAddQueue(job, priority)
    \/ RunGet
    \/ \E output \in Outputs : LoadExec(output)

\* The scheduler thread is a started thread: it goes on whenever it can (the
\* get returns once an entry is pending, an iteration ends).
FairLoad ==
    /\ WF_vars(RunGet)
    /\ WF_vars(\E output \in Outputs : LoadExec(output))

SpecLoad == InitComputer /\ [][NextLoad]_vars /\ FairLoad

InitMemory ==
    IdleComputer /\ InitMemoryVars /\ InitBusVars /\ IdleClient
    /\ InitNetVMVars /\ IdleComm /\ IdleCell

NextMemory ==
    \/ \E slot \in 1..MemSlots, data \in Values, force \in BOOLEAN :
          Write(slot, data, force)
    \/ \E slot \in 1..MemSlots : Clear(slot)
    \/ ClearAll
    \/ DumpLoad

SpecMemory == InitMemory /\ [][NextMemory]_vars

InitBus == IdleComputer /\ InitMemoryVars /\ InitBusVars /\ IdleClient
    /\ InitNetVMVars /\ IdleComm /\ IdleCell

NextBus ==
    \/ \E layer_name \in Channels, in_name \in EventNames,
          out_name \in EventNames \cup {""} :
          AppendRelay(layer_name, in_name, out_name)
    \/ \E event \in EventNames, layer_name \in Channels :
          HubOn(event, "f", layer_name)
    \/ \E peer \in Peers, layer_name \in Channels :
          PeerConnect(peer, layer_name)
    \/ \E peer \in Peers, layer_name \in Channels, event \in EventNames,
          data \in Payloads :
          PeerEmit(peer, layer_name, event, data)

SpecBus == InitBus /\ [][NextBus]_vars

\* The hub with registration and unregistration of handlers and relays, two
\* peers of which A emits, and one payload.
HubPeers == {"A", "B"}

HubPayloads == {"d1"}

NextHub ==
    \/ \E layer_name \in Channels, in_name \in EventNames,
          out_name \in EventNames \cup {""} :
          AppendRelay(layer_name, in_name, out_name)
    \/ \E layer_name \in Channels, in_name \in EventNames :
          RemoveRelay(layer_name, in_name)
    \/ \E event \in EventNames, handler \in HandlerNames,
          layer_name \in Channels :
          HubOn(event, handler, layer_name)
    \/ \E event \in EventNames, layer_name \in Channels :
          HubOff(event, layer_name)
    \/ \E peer \in HubPeers, layer_name \in Channels :
          PeerConnect(peer, layer_name)
    \/ \E layer_name \in Channels, event \in EventNames,
          data \in HubPayloads :
          PeerEmit("A", layer_name, event, data)

SpecHub == InitBus /\ [][NextHub]_vars

\* The hub of a Communicator: the default events and peers asking for a
\* broadcast.
NextBroadcast ==
    \/ \E layer_name \in Channels : RegistrationEvents(layer_name)
    \/ \E peer \in Peers, layer_name \in Channels :
          PeerConnect(peer, layer_name)
    \/ \E peer \in Peers, layer_name \in Channels, emitName \in EventNames,
          payload \in Payloads :
          PeerBroadcast(peer, layer_name, emitName, payload)

SpecBroadcast == InitBus /\ [][NextBroadcast]_vars

InitClient ==
    IdleComputer /\ InitMemoryVars /\ InitBusVars /\ InitClientVars
    /\ InitNetVMVars /\ IdleComm /\ IdleCell

NextClient ==
    \/ \E t \in Threads : EmitSync(t)
    \/ \E t \in Threads : EmitSyncResume(t)
    \/ OnSync
    \/ SyncEvent
    \/ ConnectEvent
    \/ AllReleaseStep

\* A thread waiting in acquire() is woken when a permit is there: the
\* condition variable of threading.Semaphore.
FairClient == \A t \in Threads : WF_vars(EmitSyncResume(t))

SpecClient == InitClient /\ [][NextClient]_vars /\ FairClient

\* The client whose pool is resized while it is in use.
NextBuffer ==
    \/ \E t \in Threads : EmitSync(t)
    \/ \E t \in Threads : EmitSyncResume(t)
    \/ \E t \in Threads : EmitSyncResumeOld(t)
    \/ OnSync
    \/ SyncEvent
    \/ ConnectEvent
    \/ AllReleaseStep
    \/ \E buf \in BufferArgs : ChangeBuffer(buf)
    \/ SemaphoreSetStep

\* Waiting threads are woken when a permit is there, and the threads in
\* _semaphore_all_release go on.
FairBuffer ==
    /\ \A t \in Threads : WF_vars(EmitSyncResume(t))
    /\ \A t \in Threads : WF_vars(EmitSyncResumeOld(t))
    /\ WF_vars(AllReleaseStep)
    /\ WF_vars(SemaphoreSetStep)

SpecBuffer == InitClient /\ [][NextBuffer]_vars /\ FairBuffer

InitBoot ==
    IdleComputer /\ InitMemoryVars /\ InitBusVars /\ InitFlowVars
    /\ InitBootVars /\ InitNetVMVars /\ IdleComm /\ IdleCell

\* The steps of the thread that called boot.
BootNext == BootConnect \/ BootSleep \/ ReadyWait

NextBoot ==
    \/ BootStart
    \/ BootNext
    \/ HubUp
    \/ HubDown
    \/ Reconnect
    \/ OnConnect
    \/ AllReleaseStep

\* The thread that called boot keeps running, and so do the threads of
\* socketio.Client; the hub owes nothing.
FairBoot ==
    /\ WF_vars(BootNext)
    /\ WF_vars(Reconnect)
    /\ WF_vars(OnConnect)
    /\ WF_vars(AllReleaseStep)

SpecBoot == InitBoot /\ [][NextBoot]_vars /\ FairBoot

InitNetVM ==
    /\ IdleComputer /\ InitBusVars /\ IdleClient /\ InitNetVMVars /\ IdleComm /\ IdleCell
    /\ memory \in SeededMemory
    /\ memLast = MemRecord("init", 0, NoneValue, FALSE, "ok")

NextNetVM ==
    \/ Listen
    \/ \E slot \in 1..MemSlots : ResvStart(slot)
    \/ \E slot \in 1..MemSlots, dgram \in Datagrams : Resv(slot, dgram)
    \/ \E slot \in 1..MemSlots : NetOn(slot)
    \/ \E slot \in 1..MemSlots : NetOff(slot)

SpecNetVM == InitNetVM /\ [][NextNetVM]_vars

\* A communicator booted on a scheduler: Sender.answer is the send callback;
\* the user has registered no other callback, or one for each other event.
InitComm ==
    /\ InitQueueVars /\ InitMemoryVars /\ InitBusVars /\ IdleClient
    /\ InitNetVMVars /\ InitCommVars /\ IdleCell
    /\ callbacks \in {{"send"}, Events}

NextComm ==
    \/ \E job \in PostedJobs, enc \in TransformOutcomes \cup {"unset"},
          encoded \in PostedJobs, cb \in {"ok", "raise"} :
          PostJobExec(job, enc, encoded, cb)
    \/ PostJobEmit
    \/ CommRunGet
    \/ \E output \in Outputs, fail \in FailPoints,
          dec \in TransformOutcomes \cup {"unset"} :
          CommRunExec(output, fail, dec)

\* The handler of postjob runs on to its emit.
FairComm == WF_vars(PostJobEmit)

SpecComm == InitComm /\ [][NextComm]_vars /\ FairComm

InitCell ==
    /\ IdleComputer /\ InitMemoryVars /\ InitBusVars /\ IdleClient
    /\ InitNetVMVars /\ IdleComm /\ InitCellVars

CallerNext ==
    \/ BlockCheck
    \/ BlockNew
    \/ BlockAcquire1
    \/ BlockAcquire2
    \/ BlockWake
    \/ StopSetGate

RunNext ==
    \/ RunWhile
    \/ RunWait
    \/ RunCompute
    \/ RunWrite
    \/ RunClear
    \/ ReleaseCheck
    \/ ReleaseUnlock
    \/ ReleaseDiscard

NextCell ==
    \/ TriggerAsync
    \/ TriggerSync
    \/ Stop
    \/ IsReady
    \/ \E mem \in ConnectStores, before \in BOOLEAN : Connect(mem, before)
    \/ \E data \in {A33, A34} : SourceWrite(data)
    \/ BlockCheck
    \/ BlockNew
    \/ BlockAcquire1
    \/ BlockAcquire2
    \/ BlockWake
    \/ StopSetGate
    \/ RunWhile
    \/ RunWait
    \/ RunCompute
    \/ RunWrite
    \/ RunClear
    \/ ReleaseCheck
    \/ ReleaseUnlock
    \/ ReleaseDiscard

\* Both threads are scheduled: the run loop takes its next step when it can,
\* and so does a call the caller is in.
FairCell == WF_vars(RunNext) /\ WF_vars(CallerNext)

SpecCell == InitCell /\ [][NextCell]_vars /\ FairCell

(***************************************************************************)
(* Properties of the job scheduler                                         *)
(***************************************************************************)
Items(h) == {h[i] : i \in DOMAIN h}

IsUnderscoreJob(job) ==
    job.isDict /\ job.hasCall /\ job.callIsStr /\ StartsWithUnderscore(job.call)

\* The job as add_queue stores it.
Stamped(job, priority, now) ==
    [job EXCEPT !.time = now, !.pr = priority,
                !.origin = IF @ = 0 THEN now ELSE @]

\* C1: whenever the run loop dequeues a job, its priority value is the
\* minimum among the jobs pending at that moment.
C1_DequeuesMinimum ==
    [][last'.op = "get" => \A i \in DOMAIN q : cur'.pr <= q[i].priority]_vars

\* C2: whenever the run loop dequeues a job, no job of the same priority that
\* was submitted earlier is still pending (FIFO within a priority).
C2_FifoWithinPriority ==
    [][last'.op = "get"
       => \A i \in DOMAIN q :
             q[i].priority = cur'.pr => cur'.time <= q[i].time]_vars

C4_TwoOutcomesNeverRaises ==
    [][last'.op = "add_queue"
       => IF CheckJob(last'.job)
          THEN /\ Len(q') = Len(q) + 1
               /\ last'.ret = "True"
               /\ ("accept" \in callbacks => last'.fired = {"accept"})
          ELSE /\ q' = q
               /\ last'.ret = "False"
               /\ ("reject" \in callbacks => last'.fired = {"reject"})]_vars

\* C4 amended: every call of add_queue has the queue effect and fires the
\* callback of exactly one of the two outcomes: a valid job adds exactly one
\* entry (the job at the given priority) and fires accept, an invalid one
\* leaves the queue and fires reject; the call returns True, respectively
\* False, unless the callback it fired raises, and then that exception
\* reaches the caller.
C4_TwoOutcomes ==
    [][last'.op = "add_queue"
       => /\ IF CheckJob(last'.job)
             THEN /\ Len(q') = Len(q) + 1
                  /\ \E priority \in Priorities :
                        Items(q') = Items(q) \cup
                           {PriorityItem(Stamped(last'.job, priority, clock'),
                                         priority, clock')}
                  /\ last'.fired = {"accept"} \cap callbacks
                  /\ last'.ret \in {"True", "raise"}
             ELSE /\ q' = q
                  /\ last'.fired = {"reject"} \cap callbacks
                  /\ last'.ret \in {"False", "raise"}
          /\ (last'.ret = "raise" => last'.fired # {})]_vars

\* A valid job has just been accepted: it is pending, the accept callback
\* fired and add_queue returned True.
C4_Witness ==
    /\ last.op = "add_queue"
    /\ last.ret = "True"
    /\ last.fired = {"accept"}
    /\ CheckJob(last.job)
    /\ \E i \in DOMAIN q : /\ q[i].data.call = last.job.call
                           /\ q[i].data.payload = last.job.payload
                           /\ q[i].time = clock

\* C5: every completed execution whose result is continuable adds exactly one
\* entry, the same job (capability and payload) at priority 10, and an
\* execution whose result is not continuable leaves the queue as it is; so
\* the queue never holds two entries that stem from the same submission.
C5_OneResubmissionPerCycle ==
    /\ [](\A i, j \in DOMAIN q :
             q[i].data.origin = q[j].data.origin => i = j)
    /\ [][(last'.op = "exec" /\ last'.ret = "ok")
          => IF last'.output.kind = "dict" /\ last'.output.loop
             THEN /\ Len(q') = Len(q) + 1
                  /\ Items(q') = Items(q) \cup
                        {PriorityItem(Stamped(cur, LoopPriority, clock'),
                                      LoopPriority, clock')}
                  /\ last'.requeued
             ELSE q' = q /\ ~last'.requeued]_vars

\* A continuable job has completed its second cycle and its resubmission is
\* pending at priority 10.
C5_Witness ==
    /\ last.op = "exec"
    /\ last.ret = "ok"
    /\ last.requeued
    /\ \E i \in DOMAIN q :
          /\ q[i].priority = LoopPriority
          /\ q[i].data.payload = last.job.payload
          /\ q[i].data.origin = last.job.origin
          /\ q[i].data.origin < last.job.time

\* C6: the run loop is never ended by a job whose execution raised.
C6_LoopSurvivesFailure == pc # "dead"

\* The key the ordering of entries is meant to compare.
Key(e) == <<e.priority, e.time>>

\* C25: PriorityItem.__lt__ is a strict total order on (priority, submission
\* time) over the entries the queue compares: no entry is less than itself,
\* of two pending entries with distinct keys exactly one is less than the
\* other, and the relation is transitive.
C25_StrictTotalOrder ==
    /\ \A a \in Items(q) : ~Lt(a, a)
    /\ \A a, b \in Items(q) : Key(a) # Key(b) => (Lt(a, b) <=> ~Lt(b, a))
    /\ \A a, b, c \in Items(q) : (Lt(a, b) /\ Lt(b, c)) => Lt(a, c)

\* The Job invariant: a job is a dict and, if it has a capability, the
\* capability is a str, does not start with an underscore and names a
\* callable member of the compute unit.
JobInvariant(job) ==
    /\ job.isDict
    /\ job.hasCall => /\ job.callIsStr
                      /\ job.call # << >> => job.call[1] # "_"
                      /\ job.call \in CallableMembers

\* C26: every pending entry, resubmissions included, and the job in
\* execution satisfy the Job invariant; the compute unit is invoked by name
\* exactly for the jobs with a capability, which then is a str without
\* leading underscore naming a callable member, and through the default
\* path for the jobs without one.
C26_QueueHoldsValidJobs ==
    /\ [](\A e \in Items(q) : JobInvariant(e.data))
    /\ [](pc = "exec" => JobInvariant(cur))
    /\ [][last'.op = "exec"
          => /\ JobInvariant(last'.job)
             /\ IF last'.job.hasCall
                THEN /\ last'.path = "getattr"
                     /\ last'.job.callIsStr
                     /\ last'.job.call[1] # "_"
                     /\ last'.job.call \in CallableMembers
                ELSE last'.path = "default"]_vars

\* A job without capability has just been executed through the default
\* path while the resubmission of a continuable job with capability f is
\* pending at priority 10.
C26_Witness ==
    /\ last.op = "exec"
    /\ ~last.job.hasCall
    /\ last.path = "default"
    /\ \E e \in Items(q) : /\ e.priority = LoopPriority
                            /\ e.data.hasCall
                            /\ e.data.call = NameF

\* C27: an iteration of run whose compute unit returned None updates the
\* progress counter and nothing else: neither the result nor the send
\* callback fires, and nothing is put on the queue.
C27_NullOnlyCounts ==
    [][(last'.op = "exec" /\ last'.output.kind = "None")
       => /\ datacnt' = datacnt + 1
          /\ "result" \notin last'.fired
          /\ "send" \notin last'.fired
          /\ ~last'.requeued
          /\ q' = q]_vars

\* The number of jobs the run loop has dequeued so far: the entries created
\* less the entries pending.
Dequeued == clock - Len(q)

\* C28: the counter never decreases and counts the jobs dequeued, those
\* whose output was None included (the job in execution is counted once its
\* iteration has started); every annotated result carries the counter as it
\* is after its own job, which is the number of jobs dequeued so far and
\* strictly larger than the counter any earlier result carried.
C28_CounterCountsDequeued ==
    /\ [](datacnt = Dequeued - (IF pc = "exec" THEN 1 ELSE 0))
    /\ [][datacnt' >= datacnt]_vars
    /\ [][(last'.op = "exec" /\ last'.output.kind = "dict"
           /\ "result" \in last'.fired)
          => /\ last'.datacnt = Dequeued'
             /\ last'.datacnt = datacnt'
             /\ last'.datacnt > datacnt]_vars

\* The result of the third job dequeued has been delivered through the
\* result callback with the counter 3, while an entry is pending.
C28_Witness ==
    /\ last.op = "exec"
    /\ "result" \in last.fired
    /\ last.output.kind = "dict"
    /\ last.datacnt = 3
    /\ Len(q) > 0

\* C29: every output of the compute unit that is not None, with or without
\* an info map, is annotated with the counter and delivered through the
\* result callback (when one is registered), and the run loop goes on to
\* its next get.
C29_NonNullDelivered ==
    [][(last'.op = "exec" /\ last'.output.kind = "dict")
       => /\ last'.datacnt = datacnt'
          /\ "result" \in callbacks => "result" \in last'.fired
          /\ pc' = "get"]_vars

\* C30: a resubmitted continuable entry (priority 10) is never dequeued
\* while a job of normal priority is pending, whether that job was submitted
\* before or after the resubmission.
C30_NoStarvation ==
    [][(last'.op = "get" /\ cur'.pr = LoopPriority)
       => \A e \in Items(q') : e.priority >= LoopPriority]_vars

\* The entry created at time t is pending.
Pending(t) == \E i \in DOMAIN q : q[i].time = t

\* The entry created at time t has just been handed to _exec_queue.
Executed(t) == last.op = "exec" /\ last.job.time = t

\* C24: under any interleaving of the producers' add_queue calls with the
\* scheduler thread, every accepted entry is dequeued and executed exactly
\* once: pending entries are distinct, a get removes exactly the entry it
\* returns, no other step removes an entry, the entry in execution is not
\* pending, and every pending entry is eventually executed.
C24_ExactlyOnce ==
    /\ [](\A i, j \in DOMAIN q : q[i].time = q[j].time => i = j)
    /\ [](pc = "exec" => ~Pending(cur.time))
    /\ [][last'.op = "get"
          => /\ Len(q') = Len(q) - 1
             /\ \E e \in Items(q) : /\ e.data = cur'
                                    /\ Items(q') = Items(q) \ {e}]_vars
    /\ [][last'.op # "get" => Items(q) \subseteq Items(q')]_vars
    /\ [][last'.op = "exec" => last'.job = cur /\ ~Pending(cur.time)']_vars
    /\ \A t \in 1..MaxEntries : Pending(t) ~> Executed(t)

\* No call of the compute unit has raised in the last iteration of run.
ComputeReturned == last.op = "exec" => last.output.kind # "raise"

\* C31: with the scheduler thread started and going on whenever it can, if
\* no call of the compute unit ever raises then every entry that is pending
\* is eventually dequeued and executed (the entries created in a behaviour
\* are finitely many, so only finitely many are more urgent).
C31_EventuallyExecuted ==
    ([]ComputeReturned) => \A t \in 1..MaxEntries : Pending(t) ~> Executed(t)

(***************************************************************************)
(* Properties of the slot store                                            *)
(***************************************************************************)
SameType(a, b) == a.shape = b.shape /\ a.dtype = b.dtype

\* C7: a write without force of an array whose (shape, dtype) differs from
\* that of the array the slot holds fails with TypeError and leaves the
\* store as it was.
C7_StrictWriteRejectsMismatch ==
    [][(/\ memLast'.op = "write"
        /\ ~memLast'.force
        /\ memLast'.data.kind = "ndarray"
        /\ memory[memLast'.slot].kind = "ndarray"
        /\ ~SameType(memLast'.data, memory[memLast'.slot]))
       => (memLast'.result = "TypeError" /\ memory' = memory)]_vars

\* C8: a write with force always succeeds, whatever the slot holds, and
\* afterwards shape() reports the written array's (shape, dtype) for the slot.
C8_ForceWriteSucceeds ==
    (memLast.op = "write" /\ memLast.force /\ memLast.data.kind = "ndarray")
    => /\ memLast.result = "ok"
       /\ Shape(memory)[memLast.slot] =
             [set |-> TRUE, shape |-> memLast.data.shape,
              dtype |-> memLast.data.dtype]

\* C22: for any store load(dump()) succeeds and restores every slot: the
\* store has as many slots as before and each slot is in the state it was in
\* (an unset slot is unset, a set slot holds an array of the same shape,
\* dtype and contents), so that shape() reports what it reported before.
C22_LoadDumpRestores ==
    [][(memLast'.op = "dump_load" /\ memLast.op # "dump_load")
       => /\ memLast'.result = "ok"
          /\ Len(memory') = Len(memory)
          /\ \A i \in DOMAIN memory : memory'[i] = memory[i]
          /\ Shape(memory') = Shape(memory)]_vars

(***************************************************************************)
(* Properties of the bus                                                   *)
(***************************************************************************)
\* C9: when a peer emits inEvent on a channel for which
\* append_relay(channel, inEvent, outEvent) is the registration in force,
\* every other peer connected to the channel receives outEvent with the same
\* payload, and nobody else (the sender, the peers of other channels)
\* receives anything.
C9_RelayToOthers ==
    [][(/\ busLast'.op = "emit"
        /\ emits' = emits + 1
        /\ handlers[<<busLast'.layer, busLast'.event>>].kind = "relay")
       => LET rule == handlers[<<busLast'.layer, busLast'.event>>]
          IN  /\ rule.layer = busLast'.layer
              /\ \A p \in Peers :
                    inbox'[p] =
                       IF <<p, busLast'.layer>> \in connected
                          /\ p # busLast'.peer
                       THEN Append(inbox[p],
                                   Message(rule.out, busLast'.data,
                                           busLast'.layer))
                       ELSE inbox[p]]_vars

\* relay("/", "ping", "pong") is in force, A, B and C are on the channel, A
\* has emitted "ping" and B and C have received "pong".
C9_Witness ==
    /\ handlers[<<"/", "ping">>] = RelayHandler("/", "pong")
    /\ busLast = BusRecord("emit", "A", "ping", "d2", "/")
    /\ inbox["B"] = <<Message("pong", "d2", "/")>>
    /\ inbox["C"] = <<Message("pong", "d2", "/")>>
    /\ inbox["A"] = << >>

\* The (channel, event) pair of the event the hub has just received.
IncomingPair == <<busLast'.layer, busLast'.event>>

\* What calling handler h alone for the event just received does to the
\* peers' inboxes.
HandlerEffect(h) ==
    IF h.kind = "relay"
    THEN Relay(inbox, connected, h, busLast'.peer, busLast'.data)
    ELSE inbox

\* C19: on the hub the last registration wins per (event, channel) pair:
\* when an event comes in for a pair whose last call was on or append_relay,
\* the hub calls the handler or relay rule of that call and nothing else
\* happens; and a call for one pair leaves what is in force for every other
\* pair as it was.
C19_LastRegistrationWins ==
    /\ [][(emits' = emits + 1 /\ registered[IncomingPair] # NoHandler)
          => /\ dispatched' = registered[IncomingPair]
             /\ inbox' = HandlerEffect(registered[IncomingPair])]_vars
    /\ [][\A k \in Channels \X EventNames :
             registered'[k] = registered[k] => handlers'[k] = handlers[k]]_vars

\* append_relay("/", "ping") was followed by on("ping", g, "/") (a relay was
\* appended on "/", and "ping" is the only event of "/" that ever had a
\* registration), a relay is in force for ("/x", "ping"), and a "ping" of A
\* on "/" was given to g, B receiving nothing.
C19_Witness ==
    /\ "/" \in layers
    /\ handlers[<<"/", "pong">>] = NoHandler
    /\ registered[<<"/", "ping">>] = FuncHandler("g")
    /\ registered[<<"/x", "ping">>] = RelayHandler("/x", "pong")
    /\ <<"B", "/">> \in connected
    /\ busLast = BusRecord("emit", "A", "ping", "d1", "/")
    /\ dispatched = FuncHandler("g")
    /\ inbox["B"] = << >>

\* C20: after off(event, channel) or remove_relay(channel, event) an event
\* of that name coming in on that channel calls no handler and relays
\* nothing, and a channel all of whose registrations have been removed is
\* not in the hub's set of channels.
C20_OffRemoves ==
    /\ [][(emits' = emits + 1 /\ registered[IncomingPair] = NoHandler)
          => (dispatched' = NoHandler /\ inbox' = inbox)]_vars
    /\ [](\A l \in layers :
             \E e \in EventNames : registered[<<l, e>>] # NoHandler)

\* C21: when a peer sends "broadcast" with {emitName, payload} on a channel
\* where the default events are registered, every other peer of the channel
\* receives the event emitName carrying the payload, and nobody else (the
\* requesting peer, the peers of other channels) receives anything.
C21_BroadcastToOthers ==
    [][(/\ busLast'.op = "broadcast"
        /\ emits' = emits + 1
        /\ handlers[<<busLast'.layer, "broadcast">>].kind = "broadcast")
       => \A p \in Peers :
             IF <<p, busLast'.layer>> \in connected /\ p # busLast'.peer
             THEN /\ Len(inbox'[p]) = Len(inbox[p]) + 1
                  /\ SubSeq(inbox'[p], 1, Len(inbox[p])) = inbox[p]
                  /\ inbox'[p][Len(inbox'[p])].event = busLast'.event
                  /\ inbox'[p][Len(inbox'[p])].data.payload = busLast'.data
                  /\ inbox'[p][Len(inbox'[p])].namespace = busLast'.layer
             ELSE inbox'[p] = inbox[p]]_vars

(***************************************************************************)
(* Properties of the client's flow control                                 *)
(***************************************************************************)
Blocked == {t \in Threads : tpc[t] = "blocked"}

\* C10 as stated: with a pool of n permits the first n emit_sync calls
\* proceed without blocking, and a further call proceeds only after a handler
\* registered with on_sync has been invoked: the emissions never outnumber
\* n plus the invocations of such handlers.
C10_BlocksUntilSyncHandler ==
    /\ (calls <= buffer => Blocked = {})
    /\ emitted <= buffer + handlerCalls

\* C10 amended: with a pool of n permits the first n emit_sync calls proceed
\* without blocking and a further call blocks until a permit is released, by
\* a handler registered with on_sync or by the release-all of the connect
\* handler: the emissions never outnumber n plus the permits released, no
\* call is blocked while it is among the first n, and a blocked call proceeds
\* once a permit is there (unless another call takes it).
C10_BlocksUntilRelease ==
    /\ [](calls <= buffer => Blocked = {})
    /\ [](emitted + sem.value = buffer + released /\ sem.value >= 0)
    /\ [][released' # released
          => /\ released' = released + 1
             /\ sem'.value = sem.value + 1
             /\ (handlerCalls' = handlerCalls + 1 \/ epc = "release")]_vars
    /\ \A t \in Threads :
          (tpc[t] = "blocked" /\ sem.value > 0)
             ~> (tpc[t] = "idle" \/ sem.value = 0)

\* A pool of 2: two calls have emitted, the third was blocked, a handler
\* registered with on_sync has released a permit and the third has emitted.
C10_Witness ==
    /\ buffer = 2
    /\ calls = 3
    /\ emitted = 3
    /\ handlerCalls = 1
    /\ released = 1
    /\ connects = 0
    /\ Blocked = {}

\* C32: while no connect event has been served after boot (and the buffer is
\* as constructed), the permits available stay between 0 and the pool
\* size, the synchronous emissions sent and not yet answered by a handler
\* registered with on_sync never outnumber the pool size, and a response
\* that finds all permits available leaves the pool as it is while its
\* callback runs.
C32_PermitsBounded ==
    /\ [](connects = 0
          => /\ sem.bound = buffer
             /\ 0 <= sem.value /\ sem.value <= buffer
             /\ emitted - handlerCalls <= buffer)
    /\ [][(connects' = 0 /\ handlerCalls' # handlerCalls)
          => /\ handlerCalls' = handlerCalls + 1
             /\ IF sem.value = buffer
                THEN sem' = sem /\ released' = released
                ELSE sem'.value = sem.value + 1]_vars

\* With no connect event served, one emission has been answered and a
\* second response has found all permits available.
C32_Witness ==
    /\ connects = 0
    /\ emitted = 1
    /\ handlerCalls = 2
    /\ released = 1
    /\ sem.value = buffer

\* C38: a call of change_buffer with an int n, smaller or larger than the
\* pool, ends by returning True and leaves a pool of n with n permits
\* available; with a value that is not an int it returns False and leaves
\* the pool as it was.
C38_ChangeBufferReturns ==
    [][(changed.ret = "none" /\ changed'.ret # "none")
       => IF changed'.arg.isInt
          THEN /\ changed'.ret = "True"
               /\ buffer' = changed'.arg.val
               /\ sem' = BoundedSemaphore(changed'.arg.val)
          ELSE /\ changed'.ret = "False"
               /\ buffer' = buffer
               /\ sem' = sem]_vars

\* C33: the reset of the pool is soft.  When the release-all of a connect
\* event ends (no change_buffer called), all permits are available and no
\* response was waited for; when the reset of change_buffer ends, all
\* permits of the pool are available; and a caller waiting in emit_sync is
\* released as long as a permit of the pool is available.
C33_SoftReset ==
    /\ [][(epc = "release" /\ epc' = "idle" /\ changed.ret = "none"
           /\ changed.pc = "idle")
          => (sem'.value = buffer' /\ handlerCalls' = handlerCalls)]_vars
    /\ [][(changed.pc = "release" /\ changed'.pc = "idle")
          => sem'.value = buffer']_vars
    /\ \A t \in Threads :
          (tpc[t] # "idle") ~> (tpc[t] = "idle" \/ sem.value = 0)

(***************************************************************************)
(* Properties of the client's boot                                         *)
(***************************************************************************)
\* C23: boot retries the connection after every failed attempt, with a fixed
\* delay, and never gives up: a failed attempt is followed by the sleep and
\* the sleep by the next attempt, the seconds slept are RetryDelay for each
\* failure, boot returns only from waiting for the connection after a
\* successful attempt and when the bus reports "connected", and once called
\* it returns eventually if the hub is reachable from some time on.
C23_BootRetries ==
    /\ [][(bootpc = "connect" /\ bootpc' # "connect")
          => \/ hubUp /\ bootpc' = "wait"
             \/ ~hubUp /\ bootpc' = "sleep"]_vars
    /\ [][(bootpc = "sleep" /\ bootpc' # "sleep") => bootpc' = "connect"]_vars
    /\ [][(bootpc # "done" /\ bootpc' = "done")
          => (bootpc = "wait" /\ eioState = "connected")]_vars
    /\ [](bootpc \in {"idle", "connect", "sleep", "wait", "done"})
    /\ [](bootpc # "sleep" => waited = failures * RetryDelay)
    /\ [](bootpc # "idle" => (<>[]hubUp => <>(bootpc = "done")))

\* boot has returned after two failed attempts, each followed by the sleep,
\* and a third one that succeeded.
C23_Witness ==
    /\ bootpc = "done"
    /\ failures = 2
    /\ waited = 2 * RetryDelay
    /\ eioState = "connected"

(***************************************************************************)
(* Properties of the network slot store                                    *)
(***************************************************************************)
\* C11: a listener that takes a datagram whose length differs from the byte
\* size of its slot's array leaves the store as it was, fires no receive
\* callback and is still receiving afterwards.
C11_DropsWrongLength ==
    [][(/\ nvLast'.n # nvLast.n
        /\ nvLast'.len # NBytes(memory[nvLast'.slot]))
       => /\ memory' = memory
          /\ nvFired' = nvFired
          /\ lpc'[nvLast'.slot] = "recv"]_vars

\* A listener has dropped a shorter datagram and then a longer one and is
\* still receiving.
C11_Witness ==
    /\ nvLast.n >= 2
    /\ nvLast.outcome = "continue"
    /\ nvLast.len > NBytes(memory[nvLast.slot]) + 1
    /\ lpc[nvLast.slot] = "recv"

\* C12: a listener that takes a datagram whose length equals the byte size
\* of its slot's array writes the received contents into the slot (same
\* shape and dtype), fires the slot's callback once and is still receiving.
C12_AcceptsExactLength ==
    [][(/\ nvLast'.n # nvLast.n
        /\ nvLast'.len = NBytes(memory[nvLast'.slot]))
       => /\ memory' = [memory EXCEPT ![nvLast'.slot].val = nvLast'.val]
          /\ nvFired' = [nvFired EXCEPT ![nvLast'.slot] = @ + 1]
          /\ lpc'[nvLast'.slot] = "recv"]_vars

\* C36: once listen() has been called and the threads it started have gone
\* through the opening of their socket, every slot has a listener receiving
\* on its port, and no thread of listen() is left over, however many times
\* listen() was called.
C36_OneListenerPerSlot ==
    \A slot \in 1..MemSlots :
        (listens > 0 /\ starting[slot] = 0) => lpc[slot] = "recv"

(***************************************************************************)
(* Properties of the communicator                                          *)
(***************************************************************************)
ControlCount(box) ==
    Len(SelectSeq(box, LAMBDA m : m.event \in {"accept", "reject"}))

C14_AnswerOnSend ==
    [][(pc = "exec" /\ pc' # "exec")
       => IF "send" \in last'.fired
          THEN /\ ~encoderSet => commLast'.dec = "unset"
               /\ IF commLast'.dec \in {"unset", "value"}
                  THEN outbox' = Append(outbox,
                          ControlEvent("answer",
                                       [payload |-> cur.payload,
                                        decoded |-> encoderSet]))
                  ELSE outbox' = outbox
          ELSE outbox' = outbox]_vars

\* With a decoder set, a result has been answered decoded and the answer to
\* the next result, for which the decoder returned None, was left out.
C14_Witness ==
    /\ encoderSet
    /\ "send" \in last.fired
    /\ commLast.dec = "None"
    /\ datacnt = 2
    /\ Len(SelectSeq(outbox, LAMBDA m : m.event = "answer")) = 1
    /\ \E i \in DOMAIN outbox :
          outbox[i] = ControlEvent("answer",
                                   [payload |-> "b", decoded |-> TRUE])

\* The job is the one the postjob handler has just had accepted and whose
\* accept control event it has yet to emit: posted jobs are the ones of the
\* default priority, they leave the queue oldest first, and the handler takes
\* no further event before its emit.
AcceptPending(job) ==
    /\ cpc = "accept"
    /\ job.pr = DefaultPriority
    /\ \A i \in DOMAIN q : q[i].priority # DefaultPriority

\* C37: the iteration of the scheduler that delivers the result of a posted
\* job (result callback, answer event) comes after the accept control event
\* of that job has gone out.
C37_AcceptBeforeAnswer ==
    [][(/\ pc = "exec" /\ pc' # "exec"
        /\ last'.fired \cap {"result", "send"} # {})
       => ~AcceptPending(cur)]_vars

(***************************************************************************)
(* Properties of the pipeline stage                                        *)
(***************************************************************************)
\* C15: connect(store, before) returns True and replaces the source (before)
\* or the drain (not before) with store when store is shape-equal to the
\* side it replaces; otherwise it returns False and leaves both as they were.
C15_ConnectChecksReplacedSide ==
    [][(cellLast'.n # cellLast.n /\ cellLast'.op = "connect")
       => LET mem == cellLast'.mem
              before == cellLast'.before
          IN  IF IsShapeEqual(IF before THEN source ELSE drain, mem)
              THEN /\ cellLast'.ret = "True"
                   /\ source' = (IF before THEN mem ELSE source)
                   /\ drain' = (IF before THEN drain ELSE mem)
              ELSE /\ cellLast'.ret = "False"
                   /\ source' = source
                   /\ drain' = drain]_vars

InSyncTrigger ==
    callerpc \in {"block", "new", "acquire1", "acquire2", "blocked"}

\* C16: with a writeback hook set, a call of trigger(sync=True) returns
\* normally and only after a write to the drain that was not complete when
\* the call began, and the caller is never waiting for the lock while the
\* run loop, its cycle finished, waits for the next trigger.
C16_SyncTriggerReturns ==
    /\ [][(writebackSet /\ InSyncTrigger /\ callerpc' = "idle")
          => (cellLast'.ret = "ok" /\ writes > cellLast.w)]_vars
    /\ [](writebackSet
            => ~(/\ callerpc = "blocked" /\ lockHeld
                 /\ cellpc = "wait" /\ ~gate))
    /\ [](writebackSet /\ InSyncTrigger => cellpc # "dead")

\* C34: one cycle writes to the drain the output of the compute unit for the
\* value read from the source, the hooks applied only when they are set:
\* the value computed is the writeback of (or, without that hook, just) the
\* compute unit's output for the fetched (or just the read) value, the
\* write of the cycle puts it into the drain, and the cycle then lowers the
\* gate.
C34_CycleWritesOutput ==
    /\ [][(cellpc = "compute" /\ cellpc' = "write" /\ writebackSet)
          => wb' = WritebackFn(ModelFn(IF fetchSet THEN FetchFn(source[1])
                                       ELSE source[1]))]_vars
    /\ [][(cellpc = "write" /\ cellpc' # "write")
          => /\ cellpc' = "clear"
             /\ writes' = writes + 1
             /\ IF writebackSet THEN drain'[1] = wb
                ELSE drain'[1] \in {ModelFn(v) : v \in CellValues}]_vars
    /\ [][(cellpc = "clear" /\ cellpc' # "clear") => ~gate']_vars

\* C35: the run loop releases the private lock only while it is held, the
\* caller that acquired it waiting for it or about to, and then discards
\* it; and the caller in trigger(sync=True) never operates on a lock that
\* has been discarded.
C35_LockReleasedWhileHeld ==
    /\ [][(cellpc = "unlock" /\ cellpc' # "unlock")
          => /\ lockHeld
             /\ callerpc \in {"acquire2", "blocked"}
             /\ ~lockHeld'
             /\ cellpc' = "discard"]_vars
    /\ [][(callerpc \in {"acquire1", "acquire2"} /\ callerpc' # callerpc)
          => (lockRef = "Lock" /\ cellLast'.ret # "AttributeError")]_vars

\* C39: the gate is binary.  It is raised only by a trigger (or by stop's
\* trigger); a cycle starts only when the gate is raised, and a loop
\* waiting on a raised gate does start one; the gate stays raised through
\* the cycle, so a trigger issued meanwhile changes nothing; and the end of
\* the cycle lowers the gate whatever triggers were issued meanwhile, so
\* that the next cycle needs a trigger issued after it.
C39_GateBinary ==
    /\ [][(~gate /\ gate')
          => \/ cellLast'.n = cellLast.n + 1
                /\ cellLast'.op \in {"trigger", "trigger_sync"}
             \/ callerpc = "stop"]_vars
    /\ [][(cellpc = "wait" /\ cellpc' # "wait")
          => (gate /\ cellpc' = "compute")]_vars
    /\ [](cellpc \in {"compute", "write", "clear"} => gate)
    /\ [][(cellpc \in {"compute", "write", "clear"}
           /\ cellLast'.n = cellLast.n + 1
           /\ cellLast'.op \in {"trigger", "trigger_sync"})
          => (gate' = gate /\ cellpc' = cellpc)]_vars
    /\ [][(cellpc = "clear" /\ cellpc' # "clear")
          => (~gate' /\ cellpc' = "release")]_vars
    /\ (cellpc = "wait" /\ gate) ~> (cellpc = "compute")

\* Three triggers were issued before the first write to the drain was
\* complete; one cycle has run, the gate is lowered and the loop waits.
C39_Witness ==
    /\ cellLast = CellRecord(3, "trigger", "ok", 0)
    /\ writes = 1
    /\ cellpc = "wait"
    /\ ~gate

\* C40: once stop() has set the exit flag the run loop never gets to wait on
\* the gate again, so at most one further cycle starts (a cycle starts only
\* from that wait); this cycle is a full one, it goes from the computation
\* to a completed write to the drain; the loop's next test of the flag ends
\* it, and a loop that has ended starts nothing, whatever triggers follow.
C40_AtMostOneCycleAfterStop ==
    /\ [][(exit /\ cellpc' = "wait") => cellpc = "wait"]_vars
    /\ [][(cellpc' = "compute" /\ cellpc # "compute") => cellpc = "wait"]_vars
    /\ [][(exit /\ cellpc = "compute" /\ cellpc' # "compute")
          => cellpc' = "write"]_vars
    /\ [][(exit /\ cellpc = "write" /\ cellpc' # "write")
          => (cellpc' = "clear" /\ writes' = writes + 1)]_vars
    /\ [][(exit /\ cellpc = "while" /\ cellpc' # "while")
          => cellpc' = "stopped"]_vars
    /\ [][cellpc = "stopped" => cellpc' = "stopped"]_vars
    /\ [][exit => exit']_vars

Ended == cellpc \in {"stopped", "dead"}

C18_ReadyAgain ==
    /\ [][(cellLast'.n # cellLast.n /\ cellLast'.op = "is_ready")
          => (cellLast'.ret = "True" <=> ~gate)]_vars
    /\ [][(cellLast'.n # cellLast.n
           /\ cellLast'.op \in {"trigger", "trigger_sync"}) => gate']_vars
    /\ [](cellpc \in {"compute", "write", "clear"} => gate)
    /\ (gate /\ ~Ended) ~> (~gate \/ exit)

====
